---- MODULE Spec2Model ----
(***************************************************************************)
(* Mitr AI: the comprehensive orchestration flow, the fast flow, the       *)
(* context manager with its knowledge matcher, the emotion-analysis flow,  *)
(* the send handlers of the two chat components, the IndexedDB analysis    *)
(* cache, the performance monitor and the speech-synthesis utility, as     *)
(* state machines.                                                         *)
(*                                                                         *)
(* Conventions.                                                            *)
(*  - A JavaScript value that may be null/undefined is a sequence of       *)
(*    length at most one: <<>> is null/undefined, <<v>> is the value v.    *)
(*  - Fractions in [0,1] are kept in tenths (0.5 is 5, 0.8 is 8); the      *)
(*    metadata confidence score, a mean of two such numbers, is kept in    *)
(*    twentieths (the plain sum of the two tenths).                        *)
(*  - A text handed to a prompt is <<"lit", s>> for a string literal and   *)
(*    <<"json", v>> for JSON.stringify(v).                                 *)
(*  - User messages and keywords are sequences of one-character strings,   *)
(*    so that toLowerCase and includes work on characters.                 *)
(***************************************************************************)
EXTENDS Integers, Sequences, FiniteSets, TLC

VARIABLES
    \* ---- comprehensiveMitrFlow (one request)
    request,             \* the argument of processComprehensiveMitrRequest
    input,               \* the parsed input the flow body works on
    pc,                  \* position of the flow
    emotionAnalysis,     \* null or the emotion stage's output
    healthAnalysis,      \* null or the static health summary
    contextualGuidance,  \* null or the context stage's output
    safetyResult,        \* null (not called yet) or the prompt's response
    responseResult,      \* null (not called yet) or the prompt's response
    safetyPromptInput,   \* what the safety prompt was called with
    responsePromptInput, \* what the response prompt was called with
    calls,               \* the stages entered so far, in order
    caught,              \* the stages whose error a catch block logged
    thrown,              \* "" or the stage whose error left the flow
    result,              \* null or the object the flow returned
    \* ---- EnhancedChatInterface and the fast flow it calls
    userInput,           \* the textarea's text
    conversationHistory, \* the messages shown
    isLoading,           \* a send is being processed
    error,               \* null or the error text shown
    currentAnalysis,     \* null or the safety part of the analysis panel
    uiPc,                \* "idle", "flow" (awaiting the flow), "resolved"
    fastInput,           \* null or the argument of processFastMitrRequest
    fastPromptInput,     \* null or the argument of fastTherapistPrompt
    fastPromptCalls,     \* calls of fastTherapistPrompt in this request
    fastOutcome,         \* null or what processFastMitrRequest did
    riskToasts,          \* the risk alerts shown
    sends,               \* sends accepted so far
    \* ---- contextManagementFlow (one call of manageContext)
    ctxInput,            \* the flow's input
    ctxPc,               \* position of the flow
    intentPromptInput,   \* null or the argument of intentClassificationPrompt
    intentResult,        \* null or the intent prompt's output
    relevantKnowledge,   \* what findRelevantKnowledge returned (references)
    contextResult,       \* null or the context prompt's output
    ctxOutput,           \* null or the guidance the flow returned
    ctxThrown,           \* "" or the step whose error left the flow
    \* ---- emotionAnalysisFlow (one call of analyzeEmotions)
    emoInput,            \* the flow's input
    emoPc,               \* position of the flow
    results,             \* the Partial<EmotionAnalysisOutput> being filled
    emoCalls,            \* the prompts called so far, in order
    fusionPromptInput,   \* null or the argument of multimodalFusionPrompt
    emoCaught,           \* the analyzers whose error a catch block logged
    emoThrown,           \* "" or the error that left the flow
    emoOutput,           \* null or the object the flow returned
    \* ---- ChatInterface (the plain chat) and contextAwareResponse
    basicUserInput,      \* userInput: the textarea's text
    basicHistory,        \* conversationHistory: the messages shown
    basicIsLoading,      \* isLoading
    basicError,          \* error: null or the error text shown
    basicPc,             \* "idle", "flow" (awaiting the flow), "resolved"
    basicAiInput,        \* null or the argument of contextAwareResponse
    basicOutcome,        \* null or what contextAwareResponse did
    basicSends,          \* sends accepted so far
    \* ---- analysis-cache (IndexedDB stores) and its clock
    now,                 \* Date.now(), in milliseconds
    ticks,               \* clock advances so far
    analysisStore,       \* analysis_results: key -> null or {id, data, timestamp}
    messageStore,        \* message_cache: id -> null or {id, data, timestamp}
    pendingCleanups,     \* cleanupExpiredEntries calls started and not run yet
    cacheReturn,         \* null or how the latest cache call settled
    \* ---- EnhancedChatInterface: send attempts against the rendered handlers
    sendUserInput,       \* userInput: the state's text
    sendIsLoading,       \* isLoading: the state's flag
    sendHistory,         \* conversationHistory: the messages shown
    handlerClosure,      \* the userInput and isLoading the bound handlers see
    inFlight,            \* the sends awaiting processFastMitrRequest
    accepted,            \* sends accepted so far
    ignored,             \* send attempts that returned early during a send
    \* ---- PerformanceMonitor
    perfNow,             \* performance.now()
    metrics,             \* this.metrics
    timingIds,           \* the id startTiming returned for each metric
    perfReturn,          \* null or the latest endTiming call and its result
    \* ---- SpeechSynthesisUtil and the browser's speech queue
    speechSupported,     \* 'speechSynthesis' in window
    speaking,            \* this.speaking
    spokenMessages,      \* this.spokenMessages
    utterance,           \* null or the utterance being spoken
    interrupted,         \* cancelled utterances whose error event is due
    finishedIds,         \* message ids whose utterance ended or failed
    started              \* utterances handed to the browser so far

compVars == <<request, input, pc, emotionAnalysis, healthAnalysis, contextualGuidance,
              safetyResult, responseResult, safetyPromptInput,
              responsePromptInput, calls, caught, thrown, result>>

chatVars == <<userInput, conversationHistory, isLoading, error, currentAnalysis,
              uiPc, fastInput, fastPromptInput, fastPromptCalls, fastOutcome,
              riskToasts, sends>>

ctxVars == <<ctxInput, ctxPc, intentPromptInput, intentResult, relevantKnowledge,
             contextResult, ctxOutput, ctxThrown>>

emoVars == <<emoInput, emoPc, results, emoCalls, fusionPromptInput, emoCaught,
             emoThrown, emoOutput>>

basicVars == <<basicUserInput, basicHistory, basicIsLoading, basicError, basicPc,
               basicAiInput, basicOutcome, basicSends>>

cacheVars == <<now, ticks, analysisStore, messageStore, pendingCleanups, cacheReturn>>

sendVars == <<sendUserInput, sendIsLoading, sendHistory, handlerClosure, inFlight,
              accepted, ignored>>

perfVars == <<perfNow, metrics, timingIds, perfReturn>>

speechVars == <<speechSupported, speaking, spokenMessages, utterance, interrupted,
                finishedIds, started>>

\* what each flow leaves alone: the variables of the other flows
outsideComp == <<chatVars, ctxVars, emoVars, basicVars, cacheVars, sendVars, perfVars, speechVars>>

outsideChat == <<compVars, ctxVars, emoVars, basicVars, cacheVars, sendVars, perfVars, speechVars>>

outsideCtx == <<compVars, chatVars, emoVars, basicVars, cacheVars, sendVars, perfVars, speechVars>>

outsideEmo == <<compVars, chatVars, ctxVars, basicVars, cacheVars, sendVars, perfVars, speechVars>>

outsideBasic == <<compVars, chatVars, ctxVars, emoVars, cacheVars, sendVars, perfVars, speechVars>>

outsideCache == <<compVars, chatVars, ctxVars, emoVars, basicVars, sendVars, perfVars, speechVars>>

outsideSend == <<compVars, chatVars, ctxVars, emoVars, basicVars, cacheVars, perfVars, speechVars>>

outsidePerf == <<compVars, chatVars, ctxVars, emoVars, basicVars, cacheVars, sendVars, speechVars>>

outsideSpeech == <<compVars, chatVars, ctxVars, emoVars, basicVars, cacheVars, sendVars, perfVars>>

vars == <<compVars, chatVars, ctxVars, emoVars, basicVars, cacheVars, sendVars, perfVars, speechVars>>

\* ------------------------------------------------------------------------
\* JavaScript helpers
\* ------------------------------------------------------------------------

Null == <<>>

Some(v) == <<v>>

\* x || d for a string-valued x (undefined and "" are falsy)
OrStr(x, d) == IF x = Null \/ x[1] = "" THEN d ELSE x[1]

\* x || d for a number-valued x (undefined and 0 are falsy)
OrNum(x, d) == IF x = Null \/ x[1] = 0 THEN d ELSE x[1]

\* x || d for a boolean-valued x (undefined and false are falsy)
OrBool(x, d) == IF x = Null \/ x[1] = FALSE THEN d ELSE x[1]

\* x || d for an object- or array-valued x (only undefined/null is falsy)
OrObj(x, d) == IF x = Null THEN d ELSE x[1]

\* o?.f : undefined when o is null, else the field
Chain(o, f) == IF o = Null THEN Null ELSE Some(o[1][f])

\* o?.f?.g
Chain2(o, f, g) == IF o = Null THEN Null ELSE Some(o[1][f][g])

Lit(s) == <<"lit", s>>

Json(v) == <<"json", v>>

\* msg => `${msg.speaker}: ${msg.message}`
TurnLine(msg) == <<msg.speaker, ": ", msg.message>>

RECURSIVE MapLines(_)
MapLines(h) == IF h = <<>> THEN <<>> ELSE <<TurnLine(Head(h))>> \o MapLines(Tail(h))

\* history.slice(-n)
SliceLast(h, n) == IF Len(h) <= n THEN h ELSE SubSeq(h, Len(h) - n + 1, Len(h))

\* ------------------------------------------------------------------------
\* Knowledge matcher (enhanced-context-management)
\* ------------------------------------------------------------------------

UpperToLower ==
       ("A" :> "a")
    @@ ("B" :> "b")
    @@ ("C" :> "c")
    @@ ("D" :> "d")
    @@ ("E" :> "e")
    @@ ("F" :> "f")
    @@ ("G" :> "g")
    @@ ("H" :> "h")
    @@ ("I" :> "i")
    @@ ("J" :> "j")
    @@ ("K" :> "k")
    @@ ("L" :> "l")
    @@ ("M" :> "m")
    @@ ("N" :> "n")
    @@ ("O" :> "o")
    @@ ("P" :> "p")
    @@ ("Q" :> "q")
    @@ ("R" :> "r")
    @@ ("S" :> "s")
    @@ ("T" :> "t")
    @@ ("U" :> "u")
    @@ ("V" :> "v")
    @@ ("W" :> "w")
    @@ ("X" :> "x")
    @@ ("Y" :> "y")
    @@ ("Z" :> "z")

\* String.prototype.toLowerCase, character by character
ToLowerCase(s) == [i \in 1..Len(s) |-> IF s[i] \in DOMAIN UpperToLower THEN UpperToLower[s[i]] ELSE s[i]]

\* String.prototype.includes
Includes(s, k) == \E i \in 1..(Len(s) - Len(k) + 1) : SubSeq(s, i, i + Len(k) - 1) = k

\* Array.prototype.includes (strict equality of whole strings)
ArrayIncludes(a, k) == \E i \in 1..Len(a) : a[i] = k

therapeuticKnowledgeBase == <<
    [topic |-> "Active Listening",
     content |-> "Reflect back what you hear, validate emotions, ask open-ended questions, avoid judgment",
     category |-> "communication_techniques",
     keywords |-> <<<<"l", "i", "s", "t", "e", "n", "i", "n", "g">>,
                    <<"v", "a", "l", "i", "d", "a", "t", "i", "o", "n">>,
                    <<"e", "m", "p", "a", "t", "h", "y">>,
                    <<"u", "n", "d", "e", "r", "s", "t", "a", "n", "d", "i", "n", "g">>>>],
    [topic |-> "Cognitive Behavioral Therapy",
     content |-> "Help identify thought patterns, challenge negative thinking, explore behavior-emotion connections",
     category |-> "therapeutic_approaches",
     keywords |-> <<<<"t", "h", "o", "u", "g", "h", "t", "s">>,
                    <<"t", "h", "i", "n", "k", "i", "n", "g">>,
                    <<"b", "e", "h", "a", "v", "i", "o", "r">>,
                    <<"p", "a", "t", "t", "e", "r", "n", "s">>,
                    <<"n", "e", "g", "a", "t", "i", "v", "e">>>>],
    [topic |-> "Mindfulness Techniques",
     content |-> "Guide breathing exercises, present-moment awareness, body scans, non-judgmental observation",
     category |-> "coping_strategies",
     keywords |-> <<<<"m", "i", "n", "d", "f", "u", "l", "n", "e", "s", "s">>,
                    <<"b", "r", "e", "a", "t", "h", "i", "n", "g">>,
                    <<"p", "r", "e", "s", "e", "n", "t">>,
                    <<"a", "w", "a", "r", "e", "n", "e", "s", "s">>,
                    <<"m", "e", "d", "i", "t", "a", "t", "i", "o", "n">>>>],
    [topic |-> "Crisis Intervention",
     content |-> "Assess safety, provide immediate support, connect to resources, create safety plan",
     category |-> "crisis_management",
     keywords |-> <<<<"c", "r", "i", "s", "i", "s">>,
                    <<"s", "a", "f", "e", "t", "y">>,
                    <<"e", "m", "e", "r", "g", "e", "n", "c", "y">>,
                    <<"h", "a", "r", "m">>,
                    <<"s", "u", "i", "c", "i", "d", "e">>,
                    <<"d", "a", "n", "g", "e", "r">>>>],
    [topic |-> "Anxiety Management",
     content |-> "Teach grounding techniques, progressive muscle relaxation, exposure therapy principles",
     category |-> "anxiety_support",
     keywords |-> <<<<"a", "n", "x", "i", "e", "t", "y">>,
                    <<"w", "o", "r", "r", "y">>,
                    <<"f", "e", "a", "r">>,
                    <<"p", "a", "n", "i", "c">>,
                    <<"n", "e", "r", "v", "o", "u", "s">>,
                    <<"s", "t", "r", "e", "s", "s", "e", "d">>>>],
    [topic |-> "Depression Support",
     content |-> "Validate feelings, encourage small steps, behavioral activation, hope instillation",
     category |-> "depression_support",
     keywords |-> <<<<"d", "e", "p", "r", "e", "s", "s", "i", "o", "n">>,
                    <<"s", "a", "d">>,
                    <<"h", "o", "p", "e", "l", "e", "s", "s">>,
                    <<"e", "m", "p", "t", "y">>,
                    <<"w", "o", "r", "t", "h", "l", "e", "s", "s">>,
                    <<"t", "i", "r", "e", "d">>>>],
    [topic |-> "Trauma-Informed Care",
     content |-> "Create safety, avoid re-traumatization, respect autonomy, build trust gradually",
     category |-> "trauma_support",
     keywords |-> <<<<"t", "r", "a", "u", "m", "a">>,
                    <<"a", "b", "u", "s", "e">>,
                    <<"p", "t", "s", "d">>,
                    <<"f", "l", "a", "s", "h", "b", "a", "c", "k", "s">>,
                    <<"t", "r", "i", "g", "g", "e", "r", "s">>,
                    <<"s", "a", "f", "e", "t", "y">>>>],
    [topic |-> "Motivational Interviewing",
     content |-> "Explore ambivalence, enhance motivation, support self-efficacy, avoid confrontation",
     category |-> "change_facilitation",
     keywords |-> <<<<"m", "o", "t", "i", "v", "a", "t", "i", "o", "n">>,
                    <<"c", "h", "a", "n", "g", "e">>,
                    <<"a", "m", "b", "i", "v", "a", "l", "e", "n", "c", "e">>,
                    <<"g", "o", "a", "l", "s">>,
                    <<"c", "o", "m", "m", "i", "t", "m", "e", "n", "t">>>>]
>>

emotionKeywords ==
       ("anxious" :> <<<<"a", "n", "x", "i", "e", "t", "y">>, <<"w", "o", "r", "r", "y">>, <<"f", "e", "a", "r">>>>)
    @@ ("sad" :> <<<<"d", "e", "p", "r", "e", "s", "s", "i", "o", "n">>, <<"s", "a", "d">>, <<"h", "o", "p", "e", "l", "e", "s", "s">>>>)
    @@ ("angry" :> <<<<"a", "n", "g", "e", "r">>, <<"f", "r", "u", "s", "t", "r", "a", "t", "i", "o", "n">>, <<"i", "r", "r", "i", "t", "a", "t", "i", "o", "n">>>>)
    @@ ("stressed" :> <<<<"s", "t", "r", "e", "s", "s">>, <<"o", "v", "e", "r", "w", "h", "e", "l", "m">>, <<"p", "r", "e", "s", "s", "u", "r", "e">>>>)
    @@ ("confused" :> <<<<"c", "o", "n", "f", "u", "s", "i", "o", "n">>, <<"u", "n", "c", "e", "r", "t", "a", "i", "n", "t", "y">>, <<"c", "l", "a", "r", "i", "t", "y">>>>)
    @@ ("hopeful" :> <<<<"h", "o", "p", "e">>, <<"o", "p", "t", "i", "m", "i", "s", "m">>, <<"p", "o", "s", "i", "t", "i", "v", "e">>>>)

\* Property names every object literal inherits from Object.prototype: a
\* lookup with one of them yields a function or an object, not an array.
ObjectPrototypeKeys == {"constructor", "toString", "valueOf", "hasOwnProperty", "__proto__"}

\* References to the entries of the table: an entry's reference is its index.
KnowledgeRefs == [i \in 1..Len(therapeuticKnowledgeBase) |-> i]

\* Array.from(new Set(a)): first occurrences, in insertion order
RECURSIVE Unique(_)
Unique(a) == IF a = <<>> THEN <<>> ELSE LET r == Unique(SubSeq(a, 1, Len(a) - 1)) IN IF \E j \in 1..Len(r) : r[j] = a[Len(a)] THEN r ELSE Append(r, a[Len(a)])

\* a.slice(0, n)
SliceFirst(a, n) == IF Len(a) <= n THEN a ELSE SubSeq(a, 1, n)

TopMatches == 5

\* emotionalContext?.currentEmotion, as a truthy test
HasCurrentEmotion(emotionalContext) == /\ emotionalContext # Null
                                       /\ emotionalContext[1].currentEmotion # Null
                                       /\ emotionalContext[1].currentEmotion[1] # ""

MessageMatches(message) == LET messageLower == ToLowerCase(message)
                               Hit(item) == \E k \in 1..Len(item.keywords) : Includes(messageLower, item.keywords[k])
                           IN SelectSeq(KnowledgeRefs, LAMBDA r : Hit(therapeuticKnowledgeBase[r]))

EmotionMatches(label) == LET emotionKeys == IF label \in DOMAIN emotionKeywords THEN emotionKeywords[label] ELSE <<>>
                             Hit(item) == \E k \in 1..Len(emotionKeys) : ArrayIncludes(item.keywords, emotionKeys[k])
                         IN SelectSeq(KnowledgeRefs, LAMBDA r : Hit(therapeuticKnowledgeBase[r]))

\* the list before de-duplication (relevantKnowledge after the push)
CollectKnowledge(message, emotionalContext) == IF HasCurrentEmotion(emotionalContext) THEN MessageMatches(message) \o EmotionMatches(emotionalContext[1].currentEmotion[1]) ELSE MessageMatches(message)

\* DedupAndTruncate without the Set: the concatenated list is only cut
DedupAndTruncateNoSet(knowledge) == SliceFirst(knowledge, TopMatches)

DedupAndTruncate(knowledge) == SliceFirst(Unique(knowledge), TopMatches)

\* findRelevantKnowledge: [threw, value]; value is the returned list of
\* references into therapeuticKnowledgeBase.  emotionKeys.some is not a
\* function when the label names an Object.prototype property.
findRelevantKnowledge(message, emotionalContext) == IF HasCurrentEmotion(emotionalContext) /\ emotionalContext[1].currentEmotion[1] \in ObjectPrototypeKeys THEN [threw |-> TRUE, value |-> <<>>] ELSE [threw |-> FALSE, value |-> DedupAndTruncate(CollectKnowledge(message, emotionalContext))]

\* ------------------------------------------------------------------------
\* Model calls: a prompt call throws, or resolves with an output that is
\* null or an object of the prompt's output schema
\* ------------------------------------------------------------------------

Threw == [threw |-> TRUE, output |-> Null]

Resolved(o) == [threw |-> FALSE, output |-> o]

OutcomesOf(outputs) == {Threw, Resolved(Null)} \cup {Resolved(Some(o)) : o \in outputs}

\* array.join(sep) of lines that are themselves token sequences
RECURSIVE Join(_, _)
Join(lines, sep) == IF lines = <<>> THEN <<>> ELSE IF Len(lines) = 1 THEN lines[1] ELSE lines[1] \o <<sep>> \o Join(Tail(lines), sep)

MaxHistory == 7

TurnText(i) == "turn " \o ToString(i)

\* a conversation of n turns, user and agent alternating
History(n) == [i \in 1..n |-> [speaker |-> IF i % 2 = 1 THEN "user" ELSE "ai", message |-> TurnText(i), timestamp |-> "t" \o ToString(i)]]

\* ------------------------------------------------------------------------
\* contextManagementFlow (enhanced-context-management)
\* ------------------------------------------------------------------------

IntentWindow == 5

IntentOutputs == {[primary |-> "", secondary |-> <<>>, confidence |-> 0], [primary |-> "crisis_intervention", secondary |-> <<"emotional_support">>, confidence |-> 8]}

\* what the context-analysis model itself proposes for the two fields the
\* flow overwrites
ProposedIntent == [primary |-> "small_talk", secondary |-> <<"information_seeking">>, confidence |-> 3]

ProposedMatches == <<[topic |-> "Proposed by the model", content |-> "free text", relevanceScore |-> 10, category |-> "model"]>>

ContextualFactorsValues == {[emotionalState |-> "", urgencyLevel |-> "", sessionPhase |-> "", therapeuticAlliance |-> 0], [emotionalState |-> "distressed", urgencyLevel |-> "high", sessionPhase |-> "closure", therapeuticAlliance |-> 85]}

ContextAnalysisOutputs == {[relevantContext |-> <<>>, therapeuticIntent |-> ProposedIntent, responseStrategy |-> [approach |-> "supportive", tone |-> "warm", techniques |-> <<>>, avoidances |-> <<>>], contextualFactors |-> f, knowledgeBaseMatches |-> ProposedMatches, adaptivePrompt |-> "prompt"] : f \in ContextualFactorsValues}

\* ConversationContext without the slice
ConversationContextWhole(history) == Join(MapLines(history), "\n")

\* input.conversationHistory?.slice(-5).map(...).join('\n')
ConversationContext(history) == Join(MapLines(SliceLast(history, IntentWindow)), "\n")

RelevanceScore == 8

KnowledgeBaseMatch(ref) == [topic |-> therapeuticKnowledgeBase[ref].topic, content |-> therapeuticKnowledgeBase[ref].content, relevanceScore |-> RelevanceScore, category |-> therapeuticKnowledgeBase[ref].category]

\* the two assignments that close the flow
\* EnhanceContextResult without the last assignment: the intent the
\* context-analysis model proposed stays
EnhanceContextResultKeepIntent(analysis, knowledge, intent) == [analysis EXCEPT !.knowledgeBaseMatches = [i \in 1..Len(knowledge) |-> KnowledgeBaseMatch(knowledge[i])]]

EnhanceContextResult(analysis, knowledge, intent) == [analysis EXCEPT !.knowledgeBaseMatches = [i \in 1..Len(knowledge) |-> KnowledgeBaseMatch(knowledge[i])], !.therapeuticIntent = intent]

\* manageContext as a function of its input and of what its two model calls
\* do: [threw, output]
manageContext(in, intentOutcome, analysisOutcome) == LET know == findRelevantKnowledge(in.currentMessage, in.emotionalContext) IN IF intentOutcome.threw \/ know.threw \/ analysisOutcome.threw THEN Threw ELSE IF analysisOutcome.output = Null \/ intentOutcome.output = Null THEN Threw ELSE Resolved(Some(EnhanceContextResult(analysisOutcome.output[1], know.value, intentOutcome.output[1])))

\* ------------------------------------------------------------------------
\* comprehensiveMitrFlow (comprehensive-mitr-ai)
\* ------------------------------------------------------------------------

Timestamps == {"2025-01-01T00:00:00.000Z", "2025-06-01T12:30:00.000Z"}

\* the user message of the comprehensive requests
UserMessages == {<<"I", " ", "a", "m", " ", "S", "a", "d">>}

HistoryLen == 4

\* analyzeEmotions: what the emotion flow returns when it does not throw
FusedEmotionsValues == {[primary |-> "sad", confidence |-> 9, distressLevel |-> 8], [primary |-> "", confidence |-> 9, distressLevel |-> 8], [primary |-> "sad", confidence |-> 0, distressLevel |-> 8], [primary |-> "sad", confidence |-> 9, distressLevel |-> 0]}

AnalyzeEmotionsOutputs == {[fusedEmotions |-> f, recommendations |-> <<"Practice grounding">>, avatarExpression |-> [expression |-> "concerned", intensity |-> 6, duration |-> 4]] : f \in FusedEmotionsValues}

AnalyzeEmotionsOutcomes == {Threw} \cup {Resolved(Some(o)) : o \in AnalyzeEmotionsOutputs}

\* Math.floor(Math.random() * 15)
RandomRange == 15

WellnessBase == 75

StaticStressLevel == 35

StaticSleepQuality == 70

StaticActivityLevel == 65

\* the literal health summary, r being the random draw
MinimalHealthAnalysis(r) == [overallWellness |-> [score |-> WellnessBase + r, trend |-> "stable", primaryConcerns |-> <<>>], physicalHealth |-> [sleepQuality |-> StaticSleepQuality, activityLevel |-> StaticActivityLevel], mentalHealth |-> [stressLevel |-> StaticStressLevel], recommendations |-> [immediate |-> <<"Take a deep breath", "Stay hydrated">>, shortTerm |-> <<"Maintain regular sleep schedule">>, longTerm |-> <<"Build consistent exercise routine">>], alerts |-> <<>>]

\* safetyAssessmentPrompt's outputs
SafetyOutputs == {[riskLevel |-> r, concerns |-> ca[1], actions |-> ca[2], followUp |-> f, urgentIntervention |-> u] : r \in {"", "low", "critical"}, ca \in {<<<<>>, <<>>>>, <<<<"suicidal ideation">>, <<"share crisis line">>>>}, f \in BOOLEAN, u \in BOOLEAN}

\* therapeuticResponsePrompt's outputs; safetyAssessment is the generator's
\* own restatement
ResponseOutputs == {[response |-> t, interventions |-> [immediate |-> <<"Call a friend">>, session |-> <<>>, longTerm |-> <<"Keep a journal">>], safetyAssessment |-> sa] : t \in {"", "I hear you."}, sa \in {[riskLevel |-> "low", concerns |-> <<>>, actions |-> <<>>, followUp |-> FALSE], [riskLevel |-> "critical", concerns |-> <<"risk named by the generator">>, actions |-> <<"action named by the generator">>, followUp |-> TRUE]}}

\* conversationHistory?.map(...).join('\n') and ?.slice(-n).map(...).join('\n')
HistoryText(history) == IF history = Null THEN Null ELSE Some(Join(MapLines(history[1]), "\n"))

SafetyWindow == 3

RecentHistoryText(history, n) == IF history = Null THEN Null ELSE Some(Join(MapLines(SliceLast(history[1], n)), "\n"))

\* contextInput of step 3
ContextInput(in, emotion, health) == [currentMessage |-> in.userMessage, conversationHistory |-> OrObj(in.conversationHistory, <<>>), emotionalContext |-> IF emotion # Null THEN Some([currentEmotion |-> Some(emotion[1].fusedEmotions.primary), emotionIntensity |-> emotion[1].fusedEmotions.confidence, distressLevel |-> emotion[1].fusedEmotions.distressLevel]) ELSE Null, healthContext |-> IF health # Null THEN Some([wellnessScore |-> health[1].overallWellness.score, stressLevel |-> health[1].mentalHealth.stressLevel, sleepQuality |-> health[1].physicalHealth.sleepQuality, activityLevel |-> health[1].physicalHealth.activityLevel]) ELSE Null]

SafetyPromptInput(in, emotion) == [userMessage |-> in.userMessage, emotionData |-> IF emotion # Null THEN Json(emotion[1].fusedEmotions) ELSE Lit("No emotion data"), conversationHistory |-> RecentHistoryText(in.conversationHistory, SafetyWindow)]

\* ResponsePromptInput with the two placeholder texts forgotten: a missing
\* artifact is stringified as it is
ResponsePromptInputNoPlaceholder(in, emotion, guidance, safety) == [userMessage |-> in.userMessage, emotionAnalysis |-> Json(emotion), contextualGuidance |-> Json(guidance), safetyFactors |-> Json(safety[1].output)]

ResponsePromptInput(in, emotion, guidance, safety) == [userMessage |-> in.userMessage, emotionAnalysis |-> IF emotion # Null THEN Json(emotion[1]) ELSE Lit("No emotion analysis available"), contextualGuidance |-> IF guidance # Null THEN Json(guidance[1]) ELSE Lit("No contextual guidance available"), safetyFactors |-> Json(safety[1].output)]

DefaultConfidence == 5

DefaultDistress == 3

DefaultAlliance == 70

\* MergeEmotionAnalysis with the fast flow's literals as defaults
MergeEmotionAnalysisFastDefaults(emotion) == [primary |-> OrStr(Chain2(emotion, "fusedEmotions", "primary"), "neutral"), confidence |-> OrNum(Chain2(emotion, "fusedEmotions", "confidence"), 8), distressLevel |-> OrNum(Chain2(emotion, "fusedEmotions", "distressLevel"), DefaultDistress), recommendations |-> OrObj(Chain(emotion, "recommendations"), <<"Focus on the present", "Express your feelings">>)]

MergeEmotionAnalysis(emotion) == [primary |-> OrStr(Chain2(emotion, "fusedEmotions", "primary"), "neutral"), confidence |-> OrNum(Chain2(emotion, "fusedEmotions", "confidence"), DefaultConfidence), distressLevel |-> OrNum(Chain2(emotion, "fusedEmotions", "distressLevel"), DefaultDistress), recommendations |-> OrObj(Chain(emotion, "recommendations"), <<>>)]

MergeHealthAnalysis(health) == IF health # Null THEN Some([wellnessScore |-> health[1].overallWellness.score, stressLevel |-> health[1].mentalHealth.stressLevel, alerts |-> health[1].alerts, recommendations |-> health[1].recommendations.immediate]) ELSE Null

\* MergeContextualInsights with the default of therapeuticAlliance forgotten:
\* without guidance the field is undefined, that is, absent
MergeContextualInsightsNoAllianceDefault(guidance) == IF guidance = Null THEN [therapeuticIntent |-> "emotional_support", urgencyLevel |-> "low", sessionPhase |-> "exploration"] ELSE [therapeuticIntent |-> OrStr(Chain2(guidance, "therapeuticIntent", "primary"), "emotional_support"), urgencyLevel |-> OrStr(Chain2(guidance, "contextualFactors", "urgencyLevel"), "low"), sessionPhase |-> OrStr(Chain2(guidance, "contextualFactors", "sessionPhase"), "exploration"), therapeuticAlliance |-> guidance[1].contextualFactors.therapeuticAlliance]

MergeContextualInsights(guidance) == [therapeuticIntent |-> OrStr(Chain2(guidance, "therapeuticIntent", "primary"), "emotional_support"), urgencyLevel |-> OrStr(Chain2(guidance, "contextualFactors", "urgencyLevel"), "low"), sessionPhase |-> OrStr(Chain2(guidance, "contextualFactors", "sessionPhase"), "exploration"), therapeuticAlliance |-> OrNum(Chain2(guidance, "contextualFactors", "therapeuticAlliance"), DefaultAlliance)]

DefaultAvatarIntensity == 7

DefaultAvatarDuration == 5

MergeAvatarControl(emotion) == IF emotion # Null THEN [expression |-> emotion[1].avatarExpression.expression, intensity |-> emotion[1].avatarExpression.intensity, duration |-> emotion[1].avatarExpression.duration, emotionalState |-> "supportive"] ELSE [expression |-> "empathetic", intensity |-> DefaultAvatarIntensity, duration |-> DefaultAvatarDuration, emotionalState |-> "supportive"]

DefaultInterventions == [immediate |-> <<"Take a deep breath", "Ground yourself in the present moment">>, session |-> <<"Explore your feelings", "Practice mindfulness">>, longTerm |-> <<"Develop coping strategies", "Build emotional resilience">>]

MergeInterventions(responseOutput) == OrObj(Chain(responseOutput, "interventions"), DefaultInterventions)

MergeSafetyAssessment(safetyOutput) == [riskLevel |-> OrStr(Chain(safetyOutput, "riskLevel"), "low"), concerns |-> OrObj(Chain(safetyOutput, "concerns"), <<>>), actions |-> OrObj(Chain(safetyOutput, "actions"), <<>>), followUp |-> OrBool(Chain(safetyOutput, "followUp"), FALSE)]

QualityEmotional == 8

QualityEmotionalMissing == 3

QualityHealth == 9

QualityHealthMissing == 0

QualityContextual == 8

QualityContextualMissing == 5

MergeMetadata(timestamp, emotion, health, guidance) == [analysisTimestamp |-> timestamp, confidenceScore |-> OrNum(Chain2(emotion, "fusedEmotions", "confidence"), DefaultConfidence) + OrNum(Chain2(guidance, "therapeuticIntent", "confidence"), DefaultConfidence), dataQuality |-> [emotional |-> IF emotion # Null THEN QualityEmotional ELSE QualityEmotionalMissing, health |-> IF health # Null THEN QualityHealth ELSE QualityHealthMissing, contextual |-> IF guidance # Null THEN QualityContextual ELSE QualityContextualMissing]]

ApologyResponse == "I apologize, but I encountered an issue generating a response. Please try again."

\* CompileResult taking safetyAssessment from the response generator's output
CompileResultEchoSafety(timestamp, emotion, health, guidance, safety, response) == [response |-> OrStr(Chain(response[1].output, "response"), ApologyResponse), emotionAnalysis |-> MergeEmotionAnalysis(emotion), healthAnalysis |-> MergeHealthAnalysis(health), contextualInsights |-> MergeContextualInsights(guidance), avatarControl |-> MergeAvatarControl(emotion), interventions |-> MergeInterventions(response[1].output), safetyAssessment |-> OrObj(Chain(response[1].output, "safetyAssessment"), MergeSafetyAssessment(safety[1].output)), metadata |-> MergeMetadata(timestamp, emotion, health, guidance)]

\* step 6: the object the flow returns
CompileResult(timestamp, emotion, health, guidance, safety, response) == [response |-> OrStr(Chain(response[1].output, "response"), ApologyResponse), emotionAnalysis |-> MergeEmotionAnalysis(emotion), healthAnalysis |-> MergeHealthAnalysis(health), contextualInsights |-> MergeContextualInsights(guidance), avatarControl |-> MergeAvatarControl(emotion), interventions |-> MergeInterventions(response[1].output), safetyAssessment |-> MergeSafetyAssessment(safety[1].output), metadata |-> MergeMetadata(timestamp, emotion, health, guidance)]

Greeting == "Hello! I'm Mitr AI, your fast-responding therapeutic companion. How can I help you today?"

\* the component's state after mounting
ChatIdle == /\ userInput = <<>>
            /\ conversationHistory = <<[id |-> 1, speaker |-> "ai", text |-> Greeting, timestamp |-> "t1", analysis |-> Null]>>
            /\ isLoading = FALSE
            /\ error = Null
            /\ currentAnalysis = Null
            /\ uiPc = "idle"
            /\ fastInput = Null
            /\ fastPromptInput = Null
            /\ fastPromptCalls = 0
            /\ fastOutcome = Null
            /\ riskToasts = <<>>
            /\ sends = 0

\* a context flow that has not started
CtxIdle == /\ ctxInput = [currentMessage |-> <<>>, conversationHistory |-> <<>>, emotionalContext |-> Null]
           /\ ctxPc = "idle"
           /\ intentPromptInput = Null
           /\ intentResult = Null
           /\ relevantKnowledge = <<>>
           /\ contextResult = Null
           /\ ctxOutput = Null
           /\ ctxThrown = ""

\* a value of the request with its JavaScript type
JsString(s) == [type |-> "string", str |-> s]

JsNumber == [type |-> "number", str |-> <<>>]

JsUndefined == [type |-> "undefined", str |-> <<>>]

\* wearablesData objects: timestamp a string, a number, or missing
WearablesValues == {[heartRate |-> [current |-> 72], timestamp |-> t] : t \in {JsString("2025-01-01T00:00:00.000Z"), JsNumber, JsUndefined}}

\* well-formed requests without and with wearables data, and requests with
\* a userMessage or a wearables timestamp that is not a string
Requests == {[userMessage |-> JsString(m), conversationHistory |-> h, wearablesData |-> Null, now |-> t] : m \in UserMessages, h \in {Null, Some(History(HistoryLen))}, t \in Timestamps}
            \cup {[userMessage |-> JsString(m), conversationHistory |-> Null, wearablesData |-> Some(w), now |-> "2025-01-01T00:00:00.000Z"] : m \in UserMessages, w \in WearablesValues}
            \cup {[userMessage |-> u, conversationHistory |-> Null, wearablesData |-> w, now |-> "2025-01-01T00:00:00.000Z"] : u \in {JsNumber, JsUndefined}, w \in {Null} \cup {Some(x) : x \in WearablesValues}}

\* the flow body's input before the request was parsed
NoInput == [userMessage |-> <<>>, conversationHistory |-> Null, timestamp |-> ""]

\* ComprehensiveMitrInputSchema on the two required strings
ValidInputUserMessageOnly(req) == req.userMessage.type = "string"

ValidInput(req) == req.userMessage.type = "string" /\ (req.wearablesData # Null => req.wearablesData[1].timestamp.type = "string")

\* the object the flow body receives (it reads no wearables data), with the
\* timestamp it takes first
ParsedInput(req) == [userMessage |-> req.userMessage.str, conversationHistory |-> req.conversationHistory, timestamp |-> req.now]

BasicGreeting == "Hello! I'm Mitr AI. How can I help you today?"

\* ChatInterface as mounted
BasicIdle == /\ basicUserInput = <<>>
             /\ basicHistory = <<[id |-> 1, speaker |-> "ai", text |-> BasicGreeting]>>
             /\ basicIsLoading = FALSE
             /\ basicError = Null
             /\ basicPc = "idle"
             /\ basicAiInput = Null
             /\ basicOutcome = Null
             /\ basicSends = 0

AnalysisKeys == {"analysis-1"}

MessageIds == <<"m1", "m2">>

\* both stores empty, nothing called
CacheIdle == /\ now = 0
             /\ ticks = 0
             /\ analysisStore = [k \in AnalysisKeys |-> Null]
             /\ messageStore = [i \in 1..Len(MessageIds) |-> Null]
             /\ pendingCleanups = 0
             /\ cacheReturn = Null

\* the chat as first rendered, nothing sent
SendIdle == /\ sendUserInput = <<>>
            /\ sendIsLoading = FALSE
            /\ sendHistory = <<[speaker |-> "ai", send |-> 0, text |-> <<"greeting">>]>>
            /\ handlerClosure = [userInput |-> <<>>, isLoading |-> FALSE]
            /\ inFlight = {}
            /\ accepted = 0
            /\ ignored = 0

\* a monitor with no metric
PerfIdle == /\ perfNow = 1
            /\ metrics = <<>>
            /\ timingIds = <<>>
            /\ perfReturn = <<>>

\* SpeechSynthesisUtil as constructed
SpeechIdle == /\ speechSupported = TRUE
              /\ speaking = FALSE
              /\ spokenMessages = {}
              /\ utterance = <<>>
              /\ interrupted = {}
              /\ finishedIds = {}
              /\ started = 0

\* analyzeEmotions not called
EmoIdle == /\ emoInput = [imageData |-> Null, audioFeatures |-> Null, textContent |-> Null, conversationHistory |-> Null]
           /\ emoPc = "idle"
           /\ results = [facialEmotions |-> [set |-> FALSE, value |-> <<>>], voiceEmotions |-> [set |-> FALSE, value |-> <<>>], textEmotions |-> [set |-> FALSE, value |-> <<>>], fusedEmotions |-> [set |-> FALSE, value |-> <<>>], recommendations |-> [set |-> FALSE, value |-> <<>>], avatarExpression |-> [set |-> FALSE, value |-> <<>>]]
           /\ emoCalls = <<>>
           /\ fusionPromptInput = Null
           /\ emoCaught = {}
           /\ emoThrown = ""
           /\ emoOutput = Null

\* a request that has not started
CompIdle == /\ request = [userMessage |-> JsUndefined, conversationHistory |-> Null, wearablesData |-> Null, now |-> ""]
            /\ input = NoInput
            /\ pc = "idle"
            /\ emotionAnalysis = Null
            /\ healthAnalysis = Null
            /\ contextualGuidance = Null
            /\ safetyResult = Null
            /\ responseResult = Null
            /\ safetyPromptInput = Null
            /\ responsePromptInput = Null
            /\ calls = <<>>
            /\ caught = {}
            /\ thrown = ""
            /\ result = Null

CompInit == /\ request \in Requests
            /\ input = NoInput
            /\ pc = "validate"
            /\ emotionAnalysis = Null
            /\ healthAnalysis = Null
            /\ contextualGuidance = Null
            /\ safetyResult = Null
            /\ responseResult = Null
            /\ safetyPromptInput = Null
            /\ responsePromptInput = Null
            /\ calls = <<>>
            /\ caught = {}
            /\ thrown = ""
            /\ result = Null
            /\ ChatIdle
            /\ CtxIdle
            /\ EmoIdle
            /\ BasicIdle
            /\ CacheIdle /\ SendIdle /\ PerfIdle /\ SpeechIdle

\* the flow's inputSchema: a request that does not parse is rejected before
\* the flow body runs
ValidateInput == /\ pc = "validate"
                 /\ IF ValidInput(request) THEN pc' = "emotion" /\ input' = ParsedInput(request) /\ thrown' = thrown ELSE pc' = "failed" /\ input' = input /\ thrown' = "validation"
                 /\ UNCHANGED <<request, emotionAnalysis, healthAnalysis, contextualGuidance, safetyResult, responseResult, safetyPromptInput, responsePromptInput, calls, caught, result, outsideComp>>

\* step 1: analyzeEmotions inside try/catch
EmotionStage == /\ pc = "emotion"
                /\ \E o \in AnalyzeEmotionsOutcomes : emotionAnalysis' = (IF o.threw THEN Null ELSE o.output) /\ caught' = (IF o.threw THEN caught \cup {"emotion"} ELSE caught)
                /\ calls' = Append(calls, "emotion")
                /\ pc' = "health"
                /\ UNCHANGED <<request, input, healthAnalysis, contextualGuidance, safetyResult, responseResult, safetyPromptInput, responsePromptInput, thrown, result, outsideComp>>

\* step 2: the health summary, built locally
HealthStage == /\ pc = "health"
               /\ \E r \in 0..(RandomRange - 1) : healthAnalysis' = Some(MinimalHealthAnalysis(r))
               /\ calls' = Append(calls, "health")
               /\ pc' = "context"
               /\ UNCHANGED <<request, input, caught, emotionAnalysis, contextualGuidance, safetyResult, responseResult, safetyPromptInput, responsePromptInput, thrown, result, outsideComp>>

\* ContextStage handing over to the response stage directly
ContextStageSkipsSafety == /\ pc = "context"
                           /\ \E io \in OutcomesOf(IntentOutputs), ao \in OutcomesOf(ContextAnalysisOutputs) : LET o == manageContext(ContextInput(input, emotionAnalysis, healthAnalysis), io, ao) IN contextualGuidance' = (IF o.threw THEN Null ELSE o.output) /\ caught' = (IF o.threw THEN caught \cup {"context"} ELSE caught)
                           /\ calls' = Append(calls, "context")
                           /\ pc' = "response"
                           /\ UNCHANGED <<request, input, emotionAnalysis, healthAnalysis, safetyResult, responseResult, safetyPromptInput, responsePromptInput, thrown, result, outsideComp>>

\* step 3: manageContext inside try/catch
ContextStage == /\ pc = "context"
                /\ \E io \in OutcomesOf(IntentOutputs), ao \in OutcomesOf(ContextAnalysisOutputs) : LET o == manageContext(ContextInput(input, emotionAnalysis, healthAnalysis), io, ao) IN contextualGuidance' = (IF o.threw THEN Null ELSE o.output) /\ caught' = (IF o.threw THEN caught \cup {"context"} ELSE caught)
                /\ calls' = Append(calls, "context")
                /\ pc' = "safety"
                /\ UNCHANGED <<request, input, emotionAnalysis, healthAnalysis, safetyResult, responseResult, safetyPromptInput, responsePromptInput, thrown, result, outsideComp>>

\* SafetyStage wrapped in a try/catch like steps 1 and 3: the error is logged
\* and the flow goes on with no safety output
SafetyStageCaught == /\ pc = "safety"
                     /\ safetyPromptInput' = Some(SafetyPromptInput(input, emotionAnalysis))
                     /\ calls' = Append(calls, "safety")
                     /\ \E o \in OutcomesOf(SafetyOutputs) : pc' = "response" /\ thrown' = (IF o.threw THEN "safety" ELSE thrown) /\ safetyResult' = Some([output |-> o.output])
                     /\ UNCHANGED <<request, input, caught, emotionAnalysis, healthAnalysis, contextualGuidance, responseResult, responsePromptInput, result, outsideComp>>

\* step 4: await safetyAssessmentPrompt(...), not inside any try
SafetyStage == /\ pc = "safety"
               /\ safetyPromptInput' = Some(SafetyPromptInput(input, emotionAnalysis))
               /\ calls' = Append(calls, "safety")
               /\ \E o \in OutcomesOf(SafetyOutputs) : IF o.threw THEN pc' = "failed" /\ thrown' = "safety" /\ safetyResult' = safetyResult ELSE pc' = "response" /\ thrown' = thrown /\ safetyResult' = Some([output |-> o.output])
               /\ UNCHANGED <<request, input, caught, emotionAnalysis, healthAnalysis, contextualGuidance, responseResult, responsePromptInput, result, outsideComp>>

\* the number of times x occurs in seq
Count(seq, x) == Cardinality({i \in 1..Len(seq) : seq[i] = x})

\* ResponseStage retrying once a generator call that threw
ResponseStageRetry == /\ pc = "response"
                      /\ responsePromptInput' = Some(ResponsePromptInput(input, emotionAnalysis, contextualGuidance, safetyResult))
                      /\ calls' = Append(calls, "response")
                      /\ \E o \in OutcomesOf(ResponseOutputs) : IF o.threw THEN (IF Count(calls, "response") = 0 THEN pc' = "response" /\ thrown' = thrown ELSE pc' = "failed" /\ thrown' = "response") /\ responseResult' = responseResult ELSE pc' = "compile" /\ thrown' = thrown /\ responseResult' = Some([output |-> o.output])
                      /\ UNCHANGED <<request, input, caught, emotionAnalysis, healthAnalysis, contextualGuidance, safetyResult, safetyPromptInput, result, outsideComp>>

\* step 5: await therapeuticResponsePrompt(...), not inside any try
ResponseStage == /\ pc = "response"
                 /\ responsePromptInput' = Some(ResponsePromptInput(input, emotionAnalysis, contextualGuidance, safetyResult))
                 /\ calls' = Append(calls, "response")
                 /\ \E o \in OutcomesOf(ResponseOutputs) : IF o.threw THEN pc' = "failed" /\ thrown' = "response" /\ responseResult' = responseResult ELSE pc' = "compile" /\ thrown' = thrown /\ responseResult' = Some([output |-> o.output])
                 /\ UNCHANGED <<request, input, caught, emotionAnalysis, healthAnalysis, contextualGuidance, safetyResult, safetyPromptInput, result, outsideComp>>

\* step 6: compile and return
CompileStage == /\ pc = "compile"
                /\ result' = Some(CompileResult(input.timestamp, emotionAnalysis, healthAnalysis, contextualGuidance, safetyResult, responseResult))
                /\ calls' = Append(calls, "compile")
                /\ pc' = "returned"
                /\ UNCHANGED <<request, input, caught, emotionAnalysis, healthAnalysis, contextualGuidance, safetyResult, responseResult, safetyPromptInput, responsePromptInput, thrown, outsideComp>>

CompNext == ValidateInput \/ EmotionStage \/ HealthStage \/ ContextStage \/ SafetyStage \/ ResponseStage \/ CompileStage

SpecComprehensive == CompInit /\ [][CompNext]_vars

\* ------------------------------------------------------------------------
\* fastMitrFlow (fast-mitr-ai)
\* ------------------------------------------------------------------------

FastWindow == 3

FastOutputs == {[response |-> t] : t \in {"", "Take it one step at a time."}}

\* recentConversation
RecentConversation(in) == IF in.conversationHistory = Null THEN Null ELSE Some(Join(MapLines(SliceLast(in.conversationHistory[1], FastWindow)), "\n"))

FastPromptInput(in) == [userMessage |-> in.userMessage, conversationHistory |-> RecentConversation(in)]

FastConfidence == 8

FastDistress == 3

FastWellness == 75

FastStress == 35

FastAlliance == 75

FastAvatarIntensity == 7

FastAvatarDuration == 3

FastQuality == 7

\* FastResult with the comprehensive flow's way of grading the contextual
\* data quality by whether an upstream value is there
FastResultGraded(responseOutput, timestamp) == [response |-> OrStr(Chain(responseOutput, "response"), "I understand. How can I help you today?"), emotionAnalysis |-> [primary |-> "neutral", confidence |-> FastConfidence, distressLevel |-> FastDistress, recommendations |-> <<"Focus on the present", "Express your feelings">>], healthAnalysis |-> [wellnessScore |-> FastWellness, stressLevel |-> FastStress, alerts |-> <<>>, recommendations |-> <<"Take regular breaks", "Stay hydrated">>], contextualInsights |-> [therapeuticIntent |-> "supportive_listening", urgencyLevel |-> "low", sessionPhase |-> "exploration", therapeuticAlliance |-> FastAlliance], avatarControl |-> [expression |-> "empathetic", intensity |-> FastAvatarIntensity, duration |-> FastAvatarDuration, emotionalState |-> "attentive"], interventions |-> [immediate |-> <<"Take a deep breath", "Ground yourself in the present moment">>, session |-> <<"Express your feelings", "Practice mindfulness">>, longTerm |-> <<"Develop coping strategies", "Build emotional resilience">>], safetyAssessment |-> [riskLevel |-> "low", concerns |-> <<>>, actions |-> <<>>, followUp |-> FALSE], metadata |-> [analysisTimestamp |-> timestamp, confidenceScore |-> FastConfidence, dataQuality |-> [emotional |-> FastQuality, health |-> FastQuality, contextual |-> IF responseOutput = Null THEN QualityContextualMissing ELSE FastQuality]]]

\* the object fastMitrFlow returns, given the prompt's output and the time
FastResult(responseOutput, timestamp) == [response |-> OrStr(Chain(responseOutput, "response"), "I understand. How can I help you today?"), emotionAnalysis |-> [primary |-> "neutral", confidence |-> FastConfidence, distressLevel |-> FastDistress, recommendations |-> <<"Focus on the present", "Express your feelings">>], healthAnalysis |-> [wellnessScore |-> FastWellness, stressLevel |-> FastStress, alerts |-> <<>>, recommendations |-> <<"Take regular breaks", "Stay hydrated">>], contextualInsights |-> [therapeuticIntent |-> "supportive_listening", urgencyLevel |-> "low", sessionPhase |-> "exploration", therapeuticAlliance |-> FastAlliance], avatarControl |-> [expression |-> "empathetic", intensity |-> FastAvatarIntensity, duration |-> FastAvatarDuration, emotionalState |-> "attentive"], interventions |-> [immediate |-> <<"Take a deep breath", "Ground yourself in the present moment">>, session |-> <<"Express your feelings", "Practice mindfulness">>, longTerm |-> <<"Develop coping strategies", "Build emotional resilience">>], safetyAssessment |-> [riskLevel |-> "low", concerns |-> <<>>, actions |-> <<>>, followUp |-> FALSE], metadata |-> [analysisTimestamp |-> timestamp, confidenceScore |-> FastConfidence, dataQuality |-> [emotional |-> FastQuality, health |-> FastQuality, contextual |-> FastQuality]]]

\* processFastMitrRequest as a function of what its model call does
processFastMitrRequest(promptOutcome, timestamp) == IF promptOutcome.threw THEN Threw ELSE Resolved(Some(FastResult(promptOutcome.output, timestamp)))

\* ------------------------------------------------------------------------
\* EnhancedChatInterface.handleSendMessage (enhanced-chat-interface)
\* ------------------------------------------------------------------------

MaxSends == 2

UserInputs == {<<>>, <<" ", " ">>, <<"h", "i">>, <<" ", "e", "n", "d", " ", "m", "y", " ", "l", "i", "f", "e", " ">>}

\* String.prototype.trim
RECURSIVE TrimStart(_)
TrimStart(s) == IF s # <<>> /\ Head(s) = " " THEN TrimStart(Tail(s)) ELSE s

RECURSIVE TrimEnd(_)
TrimEnd(s) == IF s # <<>> /\ s[Len(s)] = " " THEN TrimEnd(SubSeq(s, 1, Len(s) - 1)) ELSE s

Trim(s) == TrimEnd(TrimStart(s))

ErrorMessageText == "Sorry, I couldn't process your message right now. Please try again later."

NextId == Len(conversationHistory) + 1

NewMessage(speaker, text, analysis) == [id |-> NextId, speaker |-> speaker, text |-> text, timestamp |-> "t" \o ToString(NextId), analysis |-> analysis]

\* conversationHistory.map(msg => ({speaker, message, timestamp}))
FastInputHistory(history) == [i \in 1..Len(history) |-> [speaker |-> history[i].speaker, message |-> history[i].text, timestamp |-> history[i].timestamp]]

\* onChange of the textarea, or a speech-recognition result
TypeInput == /\ sends < MaxSends
             /\ \E s \in UserInputs : userInput' = s
             /\ UNCHANGED <<conversationHistory, isLoading, error, currentAnalysis, uiPc, fastInput, fastPromptInput, fastPromptCalls, fastOutcome, riskToasts, sends, outsideChat>>

\* handleSendMessage up to its first await that leaves the component
SendMessage == /\ sends < MaxSends
               /\ uiPc = "idle"
               /\ Trim(userInput) # <<>>
               /\ ~isLoading
               /\ conversationHistory' = Append(conversationHistory, NewMessage("user", Trim(userInput), Null))
               /\ userInput' = <<>>
               /\ isLoading' = TRUE
               /\ error' = Null
               /\ fastInput' = Some([userMessage |-> Trim(userInput), conversationHistory |-> Some(FastInputHistory(conversationHistory))])
               /\ fastPromptInput' = Null
               /\ fastPromptCalls' = 0
               /\ fastOutcome' = Null
               /\ uiPc' = "flow"
               /\ sends' = sends + 1
               /\ UNCHANGED <<currentAnalysis, riskToasts, outsideChat>>

\* fastMitrFlow: one awaited call of fastTherapistPrompt, then the return
FastFlow == /\ uiPc = "flow"
            /\ fastPromptInput' = Some(FastPromptInput(fastInput[1]))
            /\ fastPromptCalls' = fastPromptCalls + 1
            /\ \E o \in OutcomesOf(FastOutputs), t \in Timestamps : fastOutcome' = Some(processFastMitrRequest(o, t))
            /\ uiPc' = "resolved"
            /\ UNCHANGED <<userInput, conversationHistory, isLoading, error, currentAnalysis, fastInput, riskToasts, sends, outsideChat>>

RiskToast(aiOutput) == [variant |-> "destructive", title |-> <<aiOutput.safetyAssessment.riskLevel, " Risk Detected">>, description |-> aiOutput.safetyAssessment.concerns]

\* the try block after the flow resolved, and finally
HandleResponse == /\ uiPc = "resolved"
                  /\ ~fastOutcome[1].threw
                  /\ LET aiOutput == fastOutcome[1].output[1] IN
                        /\ currentAnalysis' = Some([safety |-> [riskLevel |-> aiOutput.safetyAssessment.riskLevel, concerns |-> aiOutput.safetyAssessment.concerns]])
                        /\ conversationHistory' = Append(conversationHistory, NewMessage("ai", aiOutput.response, Some(aiOutput)))
                        /\ riskToasts' = IF aiOutput.safetyAssessment.riskLevel = "critical" THEN Append(riskToasts, RiskToast(aiOutput)) ELSE riskToasts
                  /\ isLoading' = FALSE
                  /\ uiPc' = "idle"
                  /\ UNCHANGED <<userInput, error, fastInput, fastPromptInput, fastPromptCalls, fastOutcome, sends, outsideChat>>

\* the catch block, and finally
HandleError == /\ uiPc = "resolved"
               /\ fastOutcome[1].threw
               /\ error' = Some(ErrorMessageText)
               /\ conversationHistory' = Append(conversationHistory, NewMessage("ai", ErrorMessageText, Null))
               /\ isLoading' = FALSE
               /\ uiPc' = "idle"
               /\ UNCHANGED <<userInput, currentAnalysis, fastInput, fastPromptInput, fastPromptCalls, fastOutcome, riskToasts, sends, outsideChat>>

\* ChatInterface (chat-interface) and the contextAwareResponse flow it calls
BasicInputs == {<<>>, <<" ">>, <<" ", "h", "i">>}

ContextAwareOutputs == {[response |-> t] : t \in {"", "I am here for you."}}

BasicErrorMessageText == "Sorry, I couldn't get a response right now. Please try again later."

BasicLine(msg) == <<IF msg.speaker = "user" THEN "User" ELSE "AI", ": ", msg.text>>

formatConversationHistoryForAI(history) == LET relevantHistory == IF Len(history) = 1 /\ history[1].speaker = "ai" /\ history[1].text = BasicGreeting THEN <<>> ELSE history IN Join([i \in 1..Len(relevantHistory) |-> BasicLine(relevantHistory[i])], "\n")

BasicMessage(speaker, text) == [id |-> Len(basicHistory) + 1, speaker |-> speaker, text |-> text]

BasicTypeInput == /\ basicSends < MaxSends
                  /\ \E t \in BasicInputs : basicUserInput' = t
                  /\ UNCHANGED <<basicHistory, basicIsLoading, basicError, basicPc, basicAiInput, basicOutcome, basicSends, outsideBasic>>

\* handleSendMessage up to the awaited call
BasicSendMessage == /\ basicSends < MaxSends
                    /\ basicPc = "idle"
                    /\ Trim(basicUserInput) # <<>>
                    /\ ~basicIsLoading
                    /\ basicHistory' = Append(basicHistory, BasicMessage("user", Trim(basicUserInput)))
                    /\ basicUserInput' = <<>>
                    /\ basicIsLoading' = TRUE
                    /\ basicError' = Null
                    /\ basicAiInput' = Some([userInput |-> Trim(basicUserInput), conversationHistory |-> formatConversationHistoryForAI(basicHistory)])
                    /\ basicOutcome' = Null
                    /\ basicPc' = "flow"
                    /\ basicSends' = basicSends + 1
                    /\ UNCHANGED outsideBasic

\* contextAwareResponseFlow: one prompt call, return output!
ContextAwareResponse == /\ basicPc = "flow"
                        /\ \E o \in OutcomesOf(ContextAwareOutputs) : basicOutcome' = Some(o)
                        /\ basicPc' = "resolved"
                        /\ UNCHANGED <<basicUserInput, basicHistory, basicIsLoading, basicError, basicAiInput, basicSends, outsideBasic>>

\* the rest of try (reading aiOutput.response of a null output throws into
\* the catch), the catch block, and finally
BasicHandleKeepLoading == /\ basicPc = "resolved"
                          /\ IF basicOutcome[1].threw \/ basicOutcome[1].output = Null
                             THEN basicError' = Some(BasicErrorMessageText) /\ basicHistory' = Append(basicHistory, BasicMessage("ai", BasicErrorMessageText)) /\ basicIsLoading' = basicIsLoading
                             ELSE basicError' = basicError /\ basicHistory' = Append(basicHistory, BasicMessage("ai", basicOutcome[1].output[1].response)) /\ basicIsLoading' = FALSE
                          /\ basicPc' = "idle"
                          /\ UNCHANGED <<basicUserInput, basicAiInput, basicOutcome, basicSends, outsideBasic>>

BasicHandle == /\ basicPc = "resolved"
               /\ IF basicOutcome[1].threw \/ basicOutcome[1].output = Null
                  THEN basicError' = Some(BasicErrorMessageText) /\ basicHistory' = Append(basicHistory, BasicMessage("ai", BasicErrorMessageText))
                  ELSE basicError' = basicError /\ basicHistory' = Append(basicHistory, BasicMessage("ai", basicOutcome[1].output[1].response))
               /\ basicIsLoading' = FALSE
               /\ basicPc' = "idle"
               /\ UNCHANGED <<basicUserInput, basicAiInput, basicOutcome, basicSends, outsideBasic>>

ChatInit == ChatIdle /\ CompIdle /\ CtxIdle /\ EmoIdle /\ BasicIdle /\ CacheIdle /\ SendIdle /\ PerfIdle /\ SpeechIdle

ChatNext == TypeInput \/ SendMessage \/ FastFlow \/ HandleResponse \/ HandleError \/ BasicTypeInput \/ BasicSendMessage \/ ContextAwareResponse \/ BasicHandle

SpecChat == ChatInit /\ [][ChatNext]_vars

\* ------------------------------------------------------------------------
\* contextManagementFlow, step by step
\* ------------------------------------------------------------------------

\* pieces of text a message is made of, in this order
Fragments == <<<<"S", "a", "d">>,
              <<"r", "e", "t", "i", "r", "e", "d">>,
              <<"s", "a", "f", "e", "t", "y">>,
              <<"t", "h", "i", "n", "k", "i", "n", "g">>,
              <<"e", "m", "p", "a", "t", "h", "y">>,
              <<"g", "o", "a", "l", "s">>,
              <<"t", "h", "a", "n", "k", "s">>>>

RECURSIVE JoinFragments(_, _)
JoinFragments(i, picked) == IF i > Len(Fragments) THEN <<>> ELSE LET rest == JoinFragments(i + 1, picked) IN IF i \in picked THEN (IF rest = <<>> THEN Fragments[i] ELSE Fragments[i] \o <<" ">> \o rest) ELSE rest

CurrentMessages == {JoinFragments(1, picked) : picked \in SUBSET (1..Len(Fragments))}

\* emotionalContext: absent, without a current emotion, or with a label
EmotionLabels == {"", "anxious", "sad", "angry", "joyful", "constructor"}

EmotionalContexts == {Null, Some([currentEmotion |-> Null])} \cup {Some([currentEmotion |-> Some(l)]) : l \in EmotionLabels}

CtxInit == /\ ctxInput \in {[currentMessage |-> m, conversationHistory |-> History(n), emotionalContext |-> e] : m \in CurrentMessages, n \in 0..MaxHistory, e \in EmotionalContexts}
           /\ ctxPc = "intent"
           /\ intentPromptInput = Null
           /\ intentResult = Null
           /\ relevantKnowledge = <<>>
           /\ contextResult = Null
           /\ ctxOutput = Null
           /\ ctxThrown = ""
           /\ ChatIdle
           /\ CompIdle
           /\ EmoIdle
           /\ BasicIdle
           /\ CacheIdle /\ SendIdle /\ PerfIdle /\ SpeechIdle

\* await intentClassificationPrompt({message, conversationContext})
ClassifyIntent == /\ ctxPc = "intent"
                  /\ intentPromptInput' = Some([message |-> ctxInput.currentMessage, conversationContext |-> ConversationContext(ctxInput.conversationHistory)])
                  /\ \E o \in OutcomesOf(IntentOutputs) : IF o.threw THEN ctxPc' = "failed" /\ ctxThrown' = "intent" /\ intentResult' = intentResult ELSE ctxPc' = "knowledge" /\ ctxThrown' = ctxThrown /\ intentResult' = o.output
                  /\ UNCHANGED <<ctxInput, relevantKnowledge, contextResult, ctxOutput, outsideCtx>>

\* findRelevantKnowledge(...), then await contextAnalysisPrompt(input)
AnalyzeContext == /\ ctxPc = "knowledge"
                  /\ LET know == findRelevantKnowledge(ctxInput.currentMessage, ctxInput.emotionalContext) IN
                        IF know.threw THEN ctxPc' = "failed" /\ ctxThrown' = "knowledge" /\ UNCHANGED <<relevantKnowledge, contextResult>>
                        ELSE /\ relevantKnowledge' = know.value
                             /\ \E o \in OutcomesOf(ContextAnalysisOutputs) : IF o.threw THEN ctxPc' = "failed" /\ ctxThrown' = "analysis" /\ contextResult' = contextResult ELSE ctxPc' = "finish" /\ ctxThrown' = ctxThrown /\ contextResult' = o.output
                  /\ UNCHANGED <<ctxInput, intentPromptInput, intentResult, ctxOutput, outsideCtx>>

\* FinishContext with a degraded result: a missing intent classification
\* leaves the intent the context-analysis model proposed
FinishContextDegraded == /\ ctxPc = "finish"
                         /\ IF contextResult = Null THEN ctxPc' = "failed" /\ ctxThrown' = "no context result" /\ ctxOutput' = ctxOutput
                            ELSE IF intentResult = Null THEN ctxPc' = "returned" /\ ctxThrown' = ctxThrown /\ ctxOutput' = Some(EnhanceContextResultKeepIntent(contextResult[1], relevantKnowledge, Null))
                            ELSE ctxPc' = "returned" /\ ctxThrown' = ctxThrown /\ ctxOutput' = Some(EnhanceContextResult(contextResult[1], relevantKnowledge, intentResult[1]))
                         /\ UNCHANGED <<ctxInput, intentPromptInput, intentResult, relevantKnowledge, contextResult, outsideCtx>>

\* the two null checks, the two overrides and the return
FinishContext == /\ ctxPc = "finish"
                 /\ IF contextResult = Null THEN ctxPc' = "failed" /\ ctxThrown' = "no context result" /\ ctxOutput' = ctxOutput
                    ELSE IF intentResult = Null THEN ctxPc' = "failed" /\ ctxThrown' = "no intent result" /\ ctxOutput' = ctxOutput
                    ELSE ctxPc' = "returned" /\ ctxThrown' = ctxThrown /\ ctxOutput' = Some(EnhanceContextResult(contextResult[1], relevantKnowledge, intentResult[1]))
                 /\ UNCHANGED <<ctxInput, intentPromptInput, intentResult, relevantKnowledge, contextResult, outsideCtx>>

CtxNext == ClassifyIntent \/ AnalyzeContext \/ FinishContext

SpecContext == CtxInit /\ [][CtxNext]_vars

\* ------------------------------------------------------------------------
\* emotionAnalysisFlow (emotion-analysis), step by step
\* A property of the results object is a slot: unset, or assigned a value
\* that may itself be null (a prompt that resolved without output).
\* ------------------------------------------------------------------------

Unset == [set |-> FALSE, value |-> Null]

Assigned(v) == [set |-> TRUE, value |-> v]

\* the truthiness tests of the flow: if (input.imageData),
\* results.facialEmotions ? ... : undefined
TruthyStr(x) == x # Null /\ x[1] # ""

TruthyObj(x) == x # Null

TruthySlot(slot) == slot.set /\ slot.value # Null

ImageDatas == {Null, Some(""), Some("data:image/jpeg;base64,AAAA")}

AudioFeaturesValues == {Null, Some([pitch |-> 220, energy |-> 4, duration |-> 3])}

TextContents == {Null, Some(""), Some("I feel so alone")}

ConversationTexts == {Null, Some("user: hello")}

FacialOutputs == {[primary |-> "sad", confidence |-> 8, emotions |-> [sad |-> 8, neutral |-> 2], arousal |-> 4, valence |-> 2]}

VoiceOutputs == {[primary |-> "anxious", confidence |-> 6, emotions |-> [anxious |-> 6], stress |-> 7, energy |-> 3]}

TextOutputs == {[primary |-> "lonely", confidence |-> 7, emotions |-> [lonely |-> 7], sentiment |-> -5, intensity |-> 6]}

\* multimodalFusionPrompt's outputs: a full record, and the record of a model
\* that found nothing to fuse
FusionOutputs == {[primary |-> "sad", confidence |-> 8, emotions |-> [sad |-> 8], arousal |-> 4, valence |-> 2, distressLevel |-> 6, recommendations |-> <<"Practice grounding">>, avatarExpression |-> [expression |-> "concerned", intensity |-> 6, duration |-> 4]], [primary |-> "", confidence |-> 0, emotions |-> [neutral |-> 0], arousal |-> 0, valence |-> 0, distressLevel |-> 0, recommendations |-> <<>>, avatarExpression |-> [expression |-> "", intensity |-> 0, duration |-> 0]]}

EmptyResults == [facialEmotions |-> Unset, voiceEmotions |-> Unset, textEmotions |-> Unset, fusedEmotions |-> Unset, recommendations |-> Unset, avatarExpression |-> Unset]

\* results.x ? JSON.stringify(results.x) : undefined
FusionData(slot) == IF TruthySlot(slot) THEN Some(Json(slot.value[1])) ELSE Null

FusionPromptInput(res) == [facialData |-> FusionData(res.facialEmotions), voiceData |-> FusionData(res.voiceEmotions), textData |-> FusionData(res.textEmotions)]

\* the three assignments after the fusion call
FusedEmotions(fusionResult) == [primary |-> fusionResult.primary, confidence |-> fusionResult.confidence, emotions |-> fusionResult.emotions, arousal |-> fusionResult.arousal, valence |-> fusionResult.valence, distressLevel |-> fusionResult.distressLevel]

WithFusion(res, fusionResult) == [res EXCEPT !.fusedEmotions = Assigned(Some(FusedEmotions(fusionResult))), !.recommendations = Assigned(Some(fusionResult.recommendations)), !.avatarExpression = Assigned(Some(fusionResult.avatarExpression))]

EmoInit == /\ emoInput \in [imageData : ImageDatas, audioFeatures : AudioFeaturesValues, textContent : TextContents, conversationHistory : ConversationTexts]
           /\ emoPc = "facial"
           /\ results = EmptyResults
           /\ emoCalls = <<>>
           /\ fusionPromptInput = Null
           /\ emoCaught = {}
           /\ emoThrown = ""
           /\ emoOutput = Null
           /\ CompIdle
           /\ ChatIdle
           /\ CtxIdle
           /\ BasicIdle
           /\ CacheIdle /\ SendIdle /\ PerfIdle /\ SpeechIdle

\* AnalyzeFacial without the try/catch: a failed call leaves the flow
AnalyzeFacialUncaught == /\ emoPc = "facial"
                         /\ IF TruthyStr(emoInput.imageData)
                            THEN /\ emoCalls' = Append(emoCalls, "facial")
                                 /\ \E o \in OutcomesOf(FacialOutputs) : IF o.threw THEN emoPc' = "failed" /\ emoThrown' = "facial" /\ results' = results ELSE emoPc' = "voice" /\ emoThrown' = emoThrown /\ results' = [results EXCEPT !.facialEmotions = Assigned(o.output)]
                            ELSE emoPc' = "voice" /\ UNCHANGED <<emoCalls, emoThrown, results>>
                         /\ UNCHANGED <<emoInput, fusionPromptInput, emoCaught, emoOutput, outsideEmo>>

\* if (input.imageData) { try { facialEmotionPrompt } catch { log } }
AnalyzeFacial == /\ emoPc = "facial"
                 /\ IF TruthyStr(emoInput.imageData)
                    THEN /\ emoCalls' = Append(emoCalls, "facial")
                         /\ \E o \in OutcomesOf(FacialOutputs) : IF o.threw THEN emoCaught' = emoCaught \cup {"facial"} /\ results' = results ELSE emoCaught' = emoCaught /\ results' = [results EXCEPT !.facialEmotions = Assigned(o.output)]
                    ELSE UNCHANGED <<emoCalls, emoCaught, results>>
                 /\ emoPc' = "voice"
                 /\ UNCHANGED <<emoInput, fusionPromptInput, emoThrown, emoOutput, outsideEmo>>

\* AnalyzeVoice without the test on input.audioFeatures
AnalyzeVoiceAlways == /\ emoPc = "voice"
                      /\ emoCalls' = Append(emoCalls, "voice")
                      /\ \E o \in OutcomesOf(VoiceOutputs) : IF o.threw THEN emoCaught' = emoCaught \cup {"voice"} /\ results' = results ELSE emoCaught' = emoCaught /\ results' = [results EXCEPT !.voiceEmotions = Assigned(o.output)]
                      /\ emoPc' = "text"
                      /\ UNCHANGED <<emoInput, fusionPromptInput, emoThrown, emoOutput, outsideEmo>>

\* if (input.audioFeatures) { try { voiceEmotionPrompt } catch { log } }
AnalyzeVoice == /\ emoPc = "voice"
                /\ IF TruthyObj(emoInput.audioFeatures)
                   THEN /\ emoCalls' = Append(emoCalls, "voice")
                        /\ \E o \in OutcomesOf(VoiceOutputs) : IF o.threw THEN emoCaught' = emoCaught \cup {"voice"} /\ results' = results ELSE emoCaught' = emoCaught /\ results' = [results EXCEPT !.voiceEmotions = Assigned(o.output)]
                   ELSE UNCHANGED <<emoCalls, emoCaught, results>>
                /\ emoPc' = "text"
                /\ UNCHANGED <<emoInput, fusionPromptInput, emoThrown, emoOutput, outsideEmo>>

\* if (input.textContent) { try { textEmotionPrompt } catch { log } }
AnalyzeText == /\ emoPc = "text"
               /\ IF TruthyStr(emoInput.textContent)
                  THEN /\ emoCalls' = Append(emoCalls, "text")
                       /\ \E o \in OutcomesOf(TextOutputs) : IF o.threw THEN emoCaught' = emoCaught \cup {"text"} /\ results' = results ELSE emoCaught' = emoCaught /\ results' = [results EXCEPT !.textEmotions = Assigned(o.output)]
                  ELSE UNCHANGED <<emoCalls, emoCaught, results>>
               /\ emoPc' = "fusion"
               /\ UNCHANGED <<emoInput, fusionPromptInput, emoThrown, emoOutput, outsideEmo>>

\* FuseEmotions with one retry of a fusion call that threw
FuseEmotionsRetry == /\ emoPc = "fusion"
                     /\ fusionPromptInput' = Some(FusionPromptInput(results))
                     /\ \E o \in OutcomesOf(FusionOutputs) :
                           IF o.threw THEN emoCalls' = emoCalls \o <<"fusion", "fusion">> /\ emoPc' = "failed" /\ emoThrown' = "fusion" /\ UNCHANGED <<results, emoOutput>>
                           ELSE IF o.output = Null THEN emoCalls' = Append(emoCalls, "fusion") /\ emoPc' = "failed" /\ emoThrown' = "TypeError" /\ UNCHANGED <<results, emoOutput>>
                           ELSE emoCalls' = Append(emoCalls, "fusion") /\ emoPc' = "returned" /\ emoThrown' = emoThrown /\ results' = WithFusion(results, o.output[1]) /\ emoOutput' = Some(WithFusion(results, o.output[1]))
                     /\ UNCHANGED <<emoInput, emoCaught, outsideEmo>>

\* the fusion call, outside any try, the copying of its output and the return
FuseEmotions == /\ emoPc = "fusion"
                /\ emoCalls' = Append(emoCalls, "fusion")
                /\ fusionPromptInput' = Some(FusionPromptInput(results))
                /\ \E o \in OutcomesOf(FusionOutputs) :
                      IF o.threw THEN emoPc' = "failed" /\ emoThrown' = "fusion" /\ UNCHANGED <<results, emoOutput>>
                      ELSE IF o.output = Null THEN emoPc' = "failed" /\ emoThrown' = "TypeError" /\ UNCHANGED <<results, emoOutput>>
                      ELSE emoPc' = "returned" /\ emoThrown' = emoThrown /\ results' = WithFusion(results, o.output[1]) /\ emoOutput' = Some(WithFusion(results, o.output[1]))
                /\ UNCHANGED <<emoInput, emoCaught, outsideEmo>>

EmoNext == AnalyzeFacial \/ AnalyzeVoice \/ AnalyzeText \/ FuseEmotions

SpecEmotion == EmoInit /\ [][EmoNext]_vars

\* ------------------------------------------------------------------------
\* analysis-cache: two IndexedDB object stores read and written by four
\* exported functions, and the sweep storeAnalysisResult starts
\* ------------------------------------------------------------------------

CACHE_EXPIRY == 24 * 60 * 60 * 1000

MaxTicks == 3

MaxPending == 2

\* how a call of an exported function settled
Settled(op, status, value) == Some([op |-> op, status |-> status, value |-> value])

\* the record put() writes
Entry(id, data, timestamp) == Some([id |-> id, data |-> data, timestamp |-> timestamp])

\* getAnalysisResult's test on the record it read
AnalysisExpired(entry, at) == entry = Null \/ at - entry[1].timestamp > CACHE_EXPIRY

\* getMessages' filter
MessageValid(entry, at) == at - entry.timestamp < CACHE_EXPIRY

\* cleanupExpiredEntries' test, the same for both stores
SweepExpired(entry, at) == at - entry.timestamp > CACHE_EXPIRY

\* Array.prototype.sort by the messages' own timestamps (stable)
RECURSIVE InsertByTimestamp(_, _)
InsertByTimestamp(sorted, m) == IF sorted = <<>> THEN <<m>> ELSE IF m.timestamp < Head(sorted).timestamp THEN <<m>> \o sorted ELSE <<Head(sorted)>> \o InsertByTimestamp(Tail(sorted), m)

RECURSIVE SortByTimestamp(_)
SortByTimestamp(a) == IF a = <<>> THEN <<>> ELSE InsertByTimestamp(SortByTimestamp(SubSeq(a, 1, Len(a) - 1)), a[Len(a)])

\* store.getAll(): the records present, in key order
RECURSIVE GetAll(_, _)
GetAll(store, i) == IF i > Len(store) THEN <<>> ELSE (IF store[i] = Null THEN <<>> ELSE <<store[i][1]>>) \o GetAll(store, i + 1)

ValidMessages(store, at) == LET valid == SelectSeq(GetAll(store, 1), LAMBDA e : MessageValid(e, at)) IN SortByTimestamp([i \in 1..Len(valid) |-> valid[i].data])

CacheInit == CacheIdle /\ CompIdle /\ ChatIdle /\ CtxIdle /\ EmoIdle /\ BasicIdle /\ SendIdle /\ PerfIdle /\ SpeechIdle

\* time passes between calls
Tick == /\ ticks < MaxTicks
        /\ \E d \in {1, CACHE_EXPIRY - 1} : now' = now + d
        /\ ticks' = ticks + 1
        /\ cacheReturn' = Null
        /\ UNCHANGED <<analysisStore, messageStore, pendingCleanups, outsideCache>>

\* storeAnalysisResult(key, data): put, then start the sweep without
\* awaiting it; an error is logged and the call resolves
storeAnalysisResult == /\ pendingCleanups < MaxPending
                       /\ \E key \in AnalysisKeys, data \in {"analysis"}, opens \in BOOLEAN :
                             IF opens THEN analysisStore' = [analysisStore EXCEPT ![key] = Entry(key, data, now)] /\ pendingCleanups' = pendingCleanups + 1
                             ELSE UNCHANGED <<analysisStore, pendingCleanups>>
                       /\ cacheReturn' = Settled("storeAnalysisResult", "resolved", Null)
                       /\ UNCHANGED <<now, ticks, messageStore, outsideCache>>

\* storeMessage(id, message): put only
storeMessage == /\ \E i \in 1..Len(MessageIds), opens \in BOOLEAN :
                      IF opens THEN messageStore' = [messageStore EXCEPT ![i] = Entry(MessageIds[i], [text |-> MessageIds[i], timestamp |-> now], now)]
                      ELSE UNCHANGED messageStore
                /\ cacheReturn' = Settled("storeMessage", "resolved", Null)
                /\ UNCHANGED <<now, ticks, analysisStore, pendingCleanups, outsideCache>>

\* getAnalysisResult(key): the database does not open (null), the request
\* fails (the returned promise rejects), or the record is tested and returned
getAnalysisResult == /\ \E key \in AnalysisKeys, outcome \in {"ok", "open failed", "request failed"} :
                           cacheReturn' = IF outcome = "open failed" THEN Settled("getAnalysisResult", "resolved", Null)
                                          ELSE IF outcome = "request failed" THEN Settled("getAnalysisResult", "rejected", Null)
                                          ELSE IF AnalysisExpired(analysisStore[key], now) THEN Settled("getAnalysisResult", "resolved", Null)
                                          ELSE Settled("getAnalysisResult", "resolved", Some([key |-> key, data |-> analysisStore[key][1].data]))
                     /\ UNCHANGED <<now, ticks, analysisStore, messageStore, pendingCleanups, outsideCache>>

\* getMessages()
getMessages == /\ \E outcome \in {"ok", "open failed", "request failed"} :
                     cacheReturn' = IF outcome = "open failed" THEN Settled("getMessages", "resolved", <<>>)
                                    ELSE IF outcome = "request failed" THEN Settled("getMessages", "rejected", <<>>)
                                    ELSE Settled("getMessages", "resolved", ValidMessages(messageStore, now))
               /\ UNCHANGED <<now, ticks, analysisStore, messageStore, pendingCleanups, outsideCache>>

\* cleanupExpiredEntries(), run some time after storeAnalysisResult started
\* it: one transaction over both stores; nothing is deleted when the
\* database does not open
cleanupExpiredEntries == /\ pendingCleanups > 0
                         /\ pendingCleanups' = pendingCleanups - 1
                         /\ \E opens \in BOOLEAN :
                               IF opens THEN /\ analysisStore' = [k \in AnalysisKeys |-> IF analysisStore[k] # Null /\ SweepExpired(analysisStore[k][1], now) THEN Null ELSE analysisStore[k]]
                                             /\ messageStore' = [i \in 1..Len(MessageIds) |-> IF messageStore[i] # Null /\ SweepExpired(messageStore[i][1], now) THEN Null ELSE messageStore[i]]
                               ELSE UNCHANGED <<analysisStore, messageStore>>
                         /\ cacheReturn' = Null
                         /\ UNCHANGED <<now, ticks, outsideCache>>

CacheNext == Tick \/ storeAnalysisResult \/ storeMessage \/ getAnalysisResult \/ getMessages \/ cleanupExpiredEntries

SpecCache == CacheInit /\ [][CacheNext]_vars

\* ------------------------------------------------------------------------
\* EnhancedChatInterface: send attempts, the handlers a render binds, and
\* the sends in flight
\* ------------------------------------------------------------------------

MaxAccepted == 3

MaxIgnored == 2

MaxInputLen == 2

SendInputs == {<<>>, <<" ">>, <<"h", "i">>}

\* the values of userInput and isLoading the handlers of one render close
\* over
Rendered(text, loading) == [userInput |-> text, isLoading |-> loading]

SendInit == SendIdle /\ CompIdle /\ ChatIdle /\ CtxIdle /\ EmoIdle /\ BasicIdle /\ CacheIdle /\ PerfIdle /\ SpeechIdle

\* onChange of the textarea, which is disabled while isLoading was rendered
\* true; the update of a discrete event is rendered before the event returns
onChange == /\ ~handlerClosure.isLoading
            /\ \E s \in SendInputs : sendUserInput' = s /\ handlerClosure' = [handlerClosure EXCEPT !.userInput = s]
            /\ UNCHANGED <<sendIsLoading, sendHistory, inFlight, accepted, ignored, outsideSend>>

\* recognition.onresult with a final transcript: setUserInput outside any
\* React event, rendered later
onSpeechResult == /\ Len(sendUserInput) <= MaxInputLen
                  /\ LET transcript == <<"h", "i">> IN sendUserInput' = IF sendUserInput # <<>> THEN sendUserInput \o <<" ">> \o transcript ELSE transcript
                  /\ UNCHANGED <<sendIsLoading, sendHistory, handlerClosure, inFlight, accepted, ignored, outsideSend>>

\* handleSendMessage whose state updates are rendered later, not before the
\* event returns: the handlers stay bound to the values of the last render
handleSendMessageDeferred == IF Trim(handlerClosure.userInput) = <<>> \/ handlerClosure.isLoading
                             THEN /\ inFlight # {} => ignored < MaxIgnored
                                  /\ ignored' = IF inFlight # {} THEN ignored + 1 ELSE ignored
                                  /\ UNCHANGED <<sendUserInput, sendIsLoading, sendHistory, handlerClosure, inFlight, accepted>>
                             ELSE /\ accepted < MaxAccepted
                                  /\ sendHistory' = Append(sendHistory, [speaker |-> "user", send |-> accepted + 1, text |-> Trim(handlerClosure.userInput)])
                                  /\ sendUserInput' = <<>>
                                  /\ sendIsLoading' = TRUE
                                  /\ inFlight' = inFlight \cup {accepted + 1}
                                  /\ accepted' = accepted + 1
                                  /\ UNCHANGED <<handlerClosure, ignored>>

\* handleSendMessage up to its first await: the guard on the values the
\* handler closed over, the user message, the state updates; it runs inside
\* a discrete event, so React renders the updates before the event returns
\* and the handlers of the next event see them
handleSendMessage == IF Trim(handlerClosure.userInput) = <<>> \/ handlerClosure.isLoading
                     THEN /\ inFlight # {} => ignored < MaxIgnored
                          /\ ignored' = IF inFlight # {} THEN ignored + 1 ELSE ignored
                          /\ UNCHANGED <<sendUserInput, sendIsLoading, sendHistory, handlerClosure, inFlight, accepted>>
                     ELSE /\ accepted < MaxAccepted
                          /\ sendHistory' = Append(sendHistory, [speaker |-> "user", send |-> accepted + 1, text |-> Trim(handlerClosure.userInput)])
                          /\ sendUserInput' = <<>>
                          /\ sendIsLoading' = TRUE
                          /\ inFlight' = inFlight \cup {accepted + 1}
                          /\ accepted' = accepted + 1
                          /\ handlerClosure' = Rendered(<<>>, TRUE)
                          /\ ignored' = ignored

\* onSubmit of the form
handleSubmitForm == handleSendMessage /\ UNCHANGED outsideSend

\* onKeyDown of the textarea: Enter without Shift sends
handleKeyDown == /\ \E key \in {"Enter", "a"}, shiftKey \in BOOLEAN : IF key = "Enter" /\ ~shiftKey THEN handleSendMessage ELSE UNCHANGED sendVars
                 /\ UNCHANGED outsideSend

\* the rest of handleSendMessage for one send: processFastMitrRequest
\* settles, the AI message or the apology is appended, finally clears
\* isLoading; updates made in a promise callback are rendered later
SettleSend == /\ \E n \in inFlight, threw \in BOOLEAN :
                    /\ sendHistory' = Append(sendHistory, [speaker |-> "ai", send |-> n, text |-> IF threw THEN <<"apology">> ELSE <<"response">>])
                    /\ inFlight' = inFlight \ {n}
              /\ sendIsLoading' = FALSE
              /\ UNCHANGED <<sendUserInput, handlerClosure, accepted, ignored, outsideSend>>

\* a render commits the state and binds handlers that close over it
Render == /\ handlerClosure # Rendered(sendUserInput, sendIsLoading)
          /\ handlerClosure' = Rendered(sendUserInput, sendIsLoading)
          /\ UNCHANGED <<sendUserInput, sendIsLoading, sendHistory, inFlight, accepted, ignored, outsideSend>>

SendNext == onChange \/ onSpeechResult \/ handleSubmitForm \/ handleKeyDown \/ SettleSend \/ Render

SpecSend == SendInit /\ [][SendNext]_vars

\* ------------------------------------------------------------------------
\* PerformanceMonitor: startTiming and endTiming
\* ------------------------------------------------------------------------

maxMetrics == 100

MaxTimings == 3

MaxPerfNow == 3

\* operation names, as characters
Operations == {<<"c", "h", "a", "t">>, <<"f", "a", "s", "t", "_", "a", "i">>}

\* `${operation}_${Date.now()}_${Math.random()}`; the random part is
\* different in every call
TimingId(operation, stamp, random) == operation \o <<"_", ToString(stamp), "_", ToString(random)>>

\* id.split('_')[0]
RECURSIVE SplitFirst(_)
SplitFirst(id) == IF id = <<>> \/ Head(id) = "_" THEN <<>> ELSE <<Head(id)>> \o SplitFirst(Tail(id))

\* array.slice(-n)
LastN(seq, n) == IF Len(seq) > n THEN SubSeq(seq, Len(seq) - n + 1, Len(seq)) ELSE seq

\* !m.endTime
NoEndTime(m) == m.endTime = Null \/ m.endTime = Some(0)

\* the index of the metric that startTiming created when it returned id
MetricOf(id) == CHOOSE i \in 1..Len(timingIds) : timingIds[i] = id

PerfInit == PerfIdle /\ CompIdle /\ ChatIdle /\ CtxIdle /\ EmoIdle /\ BasicIdle /\ CacheIdle /\ SendIdle /\ SpeechIdle

\* performance.now() grows
PerfTick == /\ perfNow < MaxPerfNow
            /\ perfNow' = perfNow + 1
            /\ UNCHANGED <<metrics, timingIds, perfReturn, outsidePerf>>

\* startTiming(operation)
startTiming == /\ Len(metrics) < MaxTimings
               /\ \E operation \in Operations :
                     /\ metrics' = LastN(Append(metrics, [operation |-> operation, startTime |-> perfNow, endTime |-> Null, duration |-> Null, success |-> FALSE, cacheHit |-> Null]), maxMetrics)
                     /\ timingIds' = LastN(Append(timingIds, TimingId(operation, perfNow, Len(timingIds) + 1)), maxMetrics)
               /\ UNCHANGED <<perfNow, perfReturn, outsidePerf>>

\* endTiming(id, success, cacheHit) for an id whose metric is unfinished
endTiming == /\ \E i \in 1..Len(timingIds), success \in BOOLEAN, cacheHit \in BOOLEAN :
                   /\ metrics[i].endTime = Null
                   /\ LET id == timingIds[i]
                          operationName == SplitFirst(id)
                          open == {j \in 1..Len(metrics) : metrics[j].operation = operationName /\ NoEndTime(metrics[j])}
                      IN IF open # {}
                         THEN LET j == CHOOSE k \in open : \A l \in open : l <= k
                                  duration == perfNow - metrics[j].startTime
                              IN /\ metrics' = [metrics EXCEPT ![j] = [@ EXCEPT !.endTime = Some(perfNow), !.duration = Some(duration), !.success = success, !.cacheHit = Some(cacheHit)]]
                                 /\ perfReturn' = Some([id |-> id, at |-> perfNow, success |-> success, cacheHit |-> cacheHit, value |-> duration])
                         ELSE /\ metrics' = metrics
                              /\ perfReturn' = Some([id |-> id, at |-> perfNow, success |-> success, cacheHit |-> cacheHit, value |-> 0])
             /\ UNCHANGED <<perfNow, timingIds, outsidePerf>>

PerfNext == PerfTick \/ startTiming \/ endTiming

SpecPerf == PerfInit /\ [][PerfNext]_vars

\* ------------------------------------------------------------------------
\* SpeechSynthesisUtil and the browser's speech queue
\* ------------------------------------------------------------------------

MaxUtterances == 3

SpokenIds == {"m1", "m2", "m3"}

\* window.speechSynthesis.cancel(): the utterance being spoken stops at once
\* and its error event is delivered later
Cancelled == IF utterance = Null THEN interrupted ELSE interrupted \cup {utterance[1]}

SpeechInit == /\ speechSupported \in BOOLEAN
              /\ speaking = FALSE
              /\ spokenMessages = {}
              /\ utterance = Null
              /\ interrupted = {}
              /\ finishedIds = {}
              /\ started = 0
              /\ CompIdle /\ ChatIdle /\ CtxIdle /\ EmoIdle /\ BasicIdle /\ CacheIdle /\ SendIdle /\ PerfIdle

\* speak(text, messageId): nothing for a spoken id; without speech support
\* the id is recorded and the promise rejects; otherwise cancel, then hand
\* the new utterance to the browser, which may throw
speak == /\ started < MaxUtterances
         /\ \E messageId \in SpokenIds, throws \in BOOLEAN :
               IF messageId \in spokenMessages THEN UNCHANGED speechVars
               ELSE IF ~speechSupported THEN /\ spokenMessages' = spokenMessages \cup {messageId}
                                             /\ finishedIds' = finishedIds \cup {messageId}
                                             /\ UNCHANGED <<speechSupported, speaking, utterance, interrupted, started>>
               ELSE /\ interrupted' = Cancelled
                    /\ utterance' = IF throws THEN Null ELSE Some([n |-> started + 1, messageId |-> messageId])
                    /\ speaking' = ~throws
                    /\ started' = started + 1
                    /\ UNCHANGED <<speechSupported, spokenMessages, finishedIds>>
         /\ UNCHANGED outsideSpeech

\* stop()
stop == /\ speechSupported
        /\ utterance # Null \/ speaking
        /\ interrupted' = Cancelled
        /\ utterance' = Null
        /\ speaking' = FALSE
        /\ UNCHANGED <<speechSupported, spokenMessages, finishedIds, started, outsideSpeech>>

\* utterance.onend: the utterance being spoken has ended
onend == /\ utterance # Null
         /\ speaking' = FALSE
         /\ spokenMessages' = spokenMessages \cup {utterance[1].messageId}
         /\ finishedIds' = finishedIds \cup {utterance[1].messageId}
         /\ utterance' = Null
         /\ UNCHANGED <<speechSupported, interrupted, started, outsideSpeech>>

\* utterance.onerror: the utterance being spoken failed, or the error event
\* of a cancelled utterance arrives
onerror == /\ \E u \in Cancelled :
                 /\ speaking' = FALSE
                 /\ spokenMessages' = spokenMessages \cup {u.messageId}
                 /\ finishedIds' = finishedIds \cup {u.messageId}
                 /\ interrupted' = interrupted \ {u}
                 /\ utterance' = IF utterance = Some(u) THEN Null ELSE utterance
           /\ UNCHANGED <<speechSupported, started, outsideSpeech>>

SpeechNext == speak \/ stop \/ onend \/ onerror

SpecSpeech == SpeechInit /\ [][SpeechNext]_vars

\* every awaited call settles (it resolves or throws), so a request that can
\* take a step eventually takes one
SpecComprehensiveLive == SpecComprehensive /\ WF_vars(CompNext)

\* ------------------------------------------------------------------------
\* Properties of the comprehensive flow
\* ------------------------------------------------------------------------

IsLit(text, s) == text[1] = "lit" /\ text[2] = s

IsStringArray(a) == DOMAIN a = 1..Len(a) /\ \A i \in 1..Len(a) : a[i] \in STRING

\* C1: in every request that returns a response the safety assessor was
\* called exactly once and everything it produced (riskLevel, concerns,
\* actions, followUp, urgentIntervention) is in the returned response,
\* neither dropped nor replaced by a default.
C1_SafetyOutputNeverDropped == (pc = "returned" /\ safetyResult[1].output # Null) => LET produced == safetyResult[1].output[1]
                                                                                          merged == result[1].safetyAssessment
                                                                                      IN /\ Count(calls, "safety") = 1
                                                                                         /\ merged.riskLevel = produced.riskLevel
                                                                                         /\ merged.concerns = produced.concerns
                                                                                         /\ merged.actions = produced.actions
                                                                                         /\ merged.followUp = produced.followUp
                                                                                         /\ "urgentIntervention" \in DOMAIN merged
                                                                                         /\ merged.urgentIntervention = produced.urgentIntervention

\* C2: when the safety call or the response call throws, the flow fails:
\* nothing is returned, no default stands in for the failed stage and no
\* later stage runs.
C2_CriticalFailurePropagates == /\ thrown = "safety" => pc = "failed" /\ result = Null /\ safetyResult = Null /\ responseResult = Null /\ Count(calls, "response") = 0 /\ Count(calls, "compile") = 0
                                /\ thrown = "response" => pc = "failed" /\ result = Null /\ responseResult = Null /\ Count(calls, "compile") = 0
                                /\ pc = "failed" => thrown \in {"validation", "safety", "response"} /\ ~ENABLED CompNext

C2_Witness == pc = "failed" /\ thrown = "safety" /\ calls = <<"emotion", "health", "context", "safety">>

\* C3: an error of the emotion stage or of the context stage is caught: the
\* stage's value is null, the flow never fails at that stage, every later
\* stage still runs, the response generator is given the placeholder text,
\* and the request returns a response once the safety and response calls
\* have resolved.
C3_AnalyzerFailureRecovered == /\ "emotion" \in caught => emotionAnalysis = Null
                               /\ "context" \in caught => contextualGuidance = Null
                               /\ thrown \notin {"emotion", "context"}
                               /\ (pc \notin {"returned", "failed"}) => ENABLED CompNext
                               /\ ("emotion" \in caught /\ responsePromptInput # Null) => IsLit(responsePromptInput[1].emotionAnalysis, "No emotion analysis available")
                               /\ ("context" \in caught /\ responsePromptInput # Null) => IsLit(responsePromptInput[1].contextualGuidance, "No contextual guidance available")
                               /\ (caught # {} /\ safetyResult # Null /\ responseResult # Null) => pc \in {"compile", "returned"}
                               /\ (caught # {} /\ pc = "returned") => result # Null /\ calls = <<"emotion", "health", "context", "safety", "response", "compile">>

C3_Witness == pc = "returned" /\ caught = {"emotion", "context"} /\ result # Null

\* C4: every returned response has every field of the output schema, with a
\* value of the declared type, whatever the stages did.
C4_ResultSatisfiesSchema == pc = "returned" => LET r == result[1] IN
                                /\ DOMAIN r = {"response", "emotionAnalysis", "healthAnalysis", "contextualInsights", "avatarControl", "interventions", "safetyAssessment", "metadata"}
                                /\ r.response \in STRING
                                /\ DOMAIN r.emotionAnalysis = {"primary", "confidence", "distressLevel", "recommendations"}
                                /\ r.emotionAnalysis.primary \in STRING /\ r.emotionAnalysis.confidence \in Nat /\ r.emotionAnalysis.distressLevel \in Nat /\ IsStringArray(r.emotionAnalysis.recommendations)
                                /\ r.healthAnalysis # Null => /\ DOMAIN r.healthAnalysis[1] = {"wellnessScore", "stressLevel", "alerts", "recommendations"}
                                                              /\ r.healthAnalysis[1].wellnessScore \in Nat /\ r.healthAnalysis[1].stressLevel \in Nat
                                                              /\ r.healthAnalysis[1].alerts = <<>> /\ IsStringArray(r.healthAnalysis[1].recommendations)
                                /\ DOMAIN r.contextualInsights = {"therapeuticIntent", "urgencyLevel", "sessionPhase", "therapeuticAlliance"}
                                /\ r.contextualInsights.therapeuticIntent \in STRING /\ r.contextualInsights.urgencyLevel \in STRING /\ r.contextualInsights.sessionPhase \in STRING /\ r.contextualInsights.therapeuticAlliance \in Nat
                                /\ DOMAIN r.avatarControl = {"expression", "intensity", "duration", "emotionalState"}
                                /\ r.avatarControl.expression \in STRING /\ r.avatarControl.intensity \in Nat /\ r.avatarControl.duration \in Nat /\ r.avatarControl.emotionalState \in STRING
                                /\ DOMAIN r.interventions = {"immediate", "session", "longTerm"}
                                /\ IsStringArray(r.interventions.immediate) /\ IsStringArray(r.interventions.session) /\ IsStringArray(r.interventions.longTerm)
                                /\ DOMAIN r.safetyAssessment = {"riskLevel", "concerns", "actions", "followUp"}
                                /\ r.safetyAssessment.riskLevel \in STRING /\ IsStringArray(r.safetyAssessment.concerns) /\ IsStringArray(r.safetyAssessment.actions) /\ r.safetyAssessment.followUp \in BOOLEAN
                                /\ DOMAIN r.metadata = {"analysisTimestamp", "confidenceScore", "dataQuality"}
                                /\ r.metadata.analysisTimestamp \in STRING /\ r.metadata.confidenceScore \in Nat
                                /\ DOMAIN r.metadata.dataQuality = {"emotional", "health", "contextual"}
                                /\ r.metadata.dataQuality.emotional \in Nat /\ r.metadata.dataQuality.health \in Nat /\ r.metadata.dataQuality.contextual \in Nat

C4_Witness == pc = "returned" /\ caught = {"emotion", "context"} /\ safetyResult[1].output = Null /\ responseResult[1].output = Null

\* C5: when the emotion stage fails, the returned response has an
\* emotionAnalysis with primary 'neutral', confidence 0.5 and distressLevel
\* 0.3 (in tenths: 5 and 3).
C5_EmotionFailureDefaults == (pc = "returned" /\ "emotion" \in caught) => /\ result # Null
                                                                          /\ result[1].emotionAnalysis.primary = "neutral"
                                                                          /\ result[1].emotionAnalysis.confidence = 5
                                                                          /\ result[1].emotionAnalysis.distressLevel = 3

C5_Witness == pc = "returned" /\ "emotion" \in caught /\ result # Null /\ contextualGuidance # Null

\* the boolean fields a caller can read in the response's safetyAssessment
AlertFlagCandidates == {"followUp", "urgentIntervention", "requiresImmediateAlert"}

\* C6: a returned response carries a boolean flag that is set exactly when
\* its riskLevel is 'critical'.
C6_CriticalSetsAlertFlag == pc = "returned" => \E f \in AlertFlagCandidates \cap DOMAIN result[1].safetyAssessment : result[1].safetyAssessment[f] = (result[1].safetyAssessment.riskLevel = "critical")

\* ------------------------------------------------------------------------
\* Properties of the chat UI and the fast flow
\* ------------------------------------------------------------------------

\* messages that a safety assessment rates 'critical'
CrisisMessages == {<<"e", "n", "d", " ", "m", "y", " ", "l", "i", "f", "e">>}

CriticalResponses == {i \in 1..Len(conversationHistory) : conversationHistory[i].analysis # Null /\ conversationHistory[i].analysis[1].safetyAssessment.riskLevel = "critical"}

AnsweredCrisisMessages == {i \in 1..(Len(conversationHistory) - 1) : conversationHistory[i].speaker = "user" /\ conversationHistory[i].text \in CrisisMessages /\ conversationHistory[i + 1].analysis # Null}

\* C7: the chat UI shows one destructive risk alert for every response whose
\* riskLevel is 'critical' and none for any other response, and the alert
\* can happen with the flow the UI calls: once a message of critical risk
\* has been answered, an alert has been shown.
C7_CriticalAlertShown == (uiPc = "idle") => (/\ Len(riskToasts) = Cardinality(CriticalResponses)
                                             /\ (AnsweredCrisisMessages # {}) => (riskToasts # <<>>))

\* C8: the fast flow makes exactly one model call per request, and every
\* field of its result but the response text and the timestamp is a fixed
\* literal.
C8_FastFlowStatic == (fastOutcome # Null) => (/\ fastPromptCalls = 1
                                             /\ (~fastOutcome[1].threw) => LET r == fastOutcome[1].output[1] IN
                                                /\ DOMAIN r = {"response", "emotionAnalysis", "healthAnalysis", "contextualInsights", "avatarControl", "interventions", "safetyAssessment", "metadata"}
                                                /\ r.emotionAnalysis = [primary |-> "neutral", confidence |-> 8, distressLevel |-> 3, recommendations |-> <<"Focus on the present", "Express your feelings">>]
                                                /\ r.healthAnalysis = [wellnessScore |-> 75, stressLevel |-> 35, alerts |-> <<>>, recommendations |-> <<"Take regular breaks", "Stay hydrated">>]
                                                /\ r.contextualInsights = [therapeuticIntent |-> "supportive_listening", urgencyLevel |-> "low", sessionPhase |-> "exploration", therapeuticAlliance |-> 75]
                                                /\ r.avatarControl = [expression |-> "empathetic", intensity |-> 7, duration |-> 3, emotionalState |-> "attentive"]
                                                /\ r.interventions = [immediate |-> <<"Take a deep breath", "Ground yourself in the present moment">>, session |-> <<"Express your feelings", "Practice mindfulness">>, longTerm |-> <<"Develop coping strategies", "Build emotional resilience">>]
                                                /\ r.safetyAssessment = [riskLevel |-> "low", concerns |-> <<>>, actions |-> <<>>, followUp |-> FALSE]
                                                /\ DOMAIN r.metadata = {"analysisTimestamp", "confidenceScore", "dataQuality"}
                                                /\ r.metadata.confidenceScore = 8
                                                /\ r.metadata.dataQuality = [emotional |-> 7, health |-> 7, contextual |-> 7])

C8_Witness == sends = 2 /\ fastOutcome # Null /\ ~fastOutcome[1].threw /\ fastOutcome[1].output[1].response = "Take it one step at a time." /\ Len(fastInput[1].conversationHistory[1]) = 3

\* ------------------------------------------------------------------------
\* Properties of the context manager
\* ------------------------------------------------------------------------

InSeq(seq, x) == \E i \in 1..Len(seq) : seq[i] = x

TopicOf(ref) == therapeuticKnowledgeBase[ref].topic

\* C9: the knowledge matcher returns at most 5 entries and no topic twice,
\* also when an entry is matched both by the message and by the emotion.
C9_TopFiveNoDuplicates == /\ Len(relevantKnowledge) <= 5
                          /\ \A i, j \in 1..Len(relevantKnowledge) : i # j => TopicOf(relevantKnowledge[i]) # TopicOf(relevantKnowledge[j])

C9_Witness == /\ ctxPc = "finish"
              /\ HasCurrentEmotion(ctxInput.emotionalContext)
              /\ \E r \in 1..Len(therapeuticKnowledgeBase) : InSeq(MessageMatches(ctxInput.currentMessage), r) /\ InSeq(EmotionMatches(ctxInput.emotionalContext[1].currentEmotion[1]), r) /\ InSeq(relevantKnowledge, r)
              /\ Len(MessageMatches(ctxInput.currentMessage)) > 5
              /\ Len(relevantKnowledge) = 5

\* C10: the returned guidance has the intent classifier's result as
\* therapeuticIntent and the knowledge matcher's entries, each with
\* relevanceScore 0.8 (8 tenths), as knowledgeBaseMatches, whatever the
\* context-analysis model proposed; every other field is the model's.
C10_OverridesApplied == ctxPc = "returned" => LET out == ctxOutput[1]
                                                  refs == findRelevantKnowledge(ctxInput.currentMessage, ctxInput.emotionalContext).value
                                              IN /\ out.therapeuticIntent = intentResult[1]
                                                 /\ Len(out.knowledgeBaseMatches) = Len(refs)
                                                 /\ \A i \in 1..Len(refs) : out.knowledgeBaseMatches[i] = [topic |-> therapeuticKnowledgeBase[refs[i]].topic, content |-> therapeuticKnowledgeBase[refs[i]].content, relevanceScore |-> 8, category |-> therapeuticKnowledgeBase[refs[i]].category]
                                                 /\ \A f \in DOMAIN out \ {"therapeuticIntent", "knowledgeBaseMatches"} : out[f] = contextResult[1][f]
                                                 /\ DOMAIN out = DOMAIN contextResult[1]

C10_Witness == ctxPc = "returned" /\ contextResult[1].therapeuticIntent # intentResult[1] /\ Len(ctxOutput[1].knowledgeBaseMatches) = 5 /\ contextResult[1].knowledgeBaseMatches # ctxOutput[1].knowledgeBaseMatches

\* C11: the safetyAssessment of a returned response is the safety assessor's
\* result (each field the assessor's value, a field the assessor left empty
\* or a missing output giving the fixed default) and never the assessment
\* restated by the response generator, even when the two disagree.
C11_SafetyFromAssessor == pc = "returned" => LET merged == result[1].safetyAssessment
                                                 produced == safetyResult[1].output
                                             IN IF produced = Null THEN merged = [riskLevel |-> "low", concerns |-> <<>>, actions |-> <<>>, followUp |-> FALSE]
                                                ELSE /\ merged.riskLevel = (IF produced[1].riskLevel = "" THEN "low" ELSE produced[1].riskLevel)
                                                     /\ merged.concerns = produced[1].concerns
                                                     /\ merged.actions = produced[1].actions
                                                     /\ merged.followUp = produced[1].followUp

C11_Witness == /\ pc = "returned"
               /\ safetyResult[1].output # Null
               /\ responseResult[1].output # Null
               /\ safetyResult[1].output[1].riskLevel = "critical"
               /\ safetyResult[1].output[1].followUp
               /\ responseResult[1].output[1].safetyAssessment.riskLevel = "low"
               /\ ~responseResult[1].output[1].safetyAssessment.followUp
               /\ result[1].safetyAssessment.riskLevel = "critical"
               /\ result[1].safetyAssessment.concerns # responseResult[1].output[1].safetyAssessment.concerns

\* C12: manageContext has no degraded result: when the intent call or the
\* context-analysis call throws or resolves without an output the flow ends
\* failed with an error and without a guidance object; a guidance object is
\* returned only when both calls produced an output.
C12_ContextFailsLoudly == /\ [](ctxOutput # Null => (ctxPc = "returned" /\ ctxThrown = "" /\ intentResult # Null /\ contextResult # Null))
                          /\ [](ctxThrown # "" => (ctxPc = "failed" /\ ctxOutput = Null))
                          /\ [][(ctxPc = "finish" /\ (intentResult = Null \/ contextResult = Null)) => (ctxPc' = "failed" /\ ctxThrown' # "" /\ ctxOutput' = Null)]_vars

C12_Witness == ctxPc = "failed" /\ ctxThrown = "no intent result" /\ intentResult = Null /\ contextResult # Null /\ ctxOutput = Null

\* ------------------------------------------------------------------------
\* Properties of the emotion-analysis flow
\* ------------------------------------------------------------------------

\* the fusion call was made with no modality data at all
ZeroModalities == fusionPromptInput # Null /\ fusionPromptInput[1].facialData = Null /\ fusionPromptInput[1].voiceData = Null /\ fusionPromptInput[1].textData = Null

\* C13: with zero modality signals (no image, no audio features, no usable
\* analyzer output) the emotion-analysis flow still returns a fused record
\* to its caller and raises no error; the record's primary is set, is a key
\* of its emotions map, and its confidence lies in [0,1].
C13_ZeroModalitiesValidRecord == (emoPc \in {"returned", "failed"} /\ ZeroModalities) => /\ emoPc = "returned"
                                                                                        /\ emoThrown = ""
                                                                                        /\ emoOutput # Null
                                                                                        /\ LET fused == emoOutput[1].fusedEmotions.value[1]
                                                                                           IN /\ fused.primary # ""
                                                                                              /\ fused.primary \in DOMAIN fused.emotions
                                                                                              /\ fused.confidence \in 0..10

\* C14: a request to the comprehensive flow whose userMessage is not a
\* string, or whose wearablesData has no string timestamp, is rejected with
\* a validation error before any model call: no stage runs, no prompt is
\* called and nothing is returned.
C14_MalformedInputRejected == (pc # "validate" /\ (request.userMessage.type # "string" \/ (request.wearablesData # Null /\ request.wearablesData[1].timestamp.type # "string"))) => /\ pc = "failed"
                                                                                                                                                                                    /\ thrown = "validation"
                                                                                                                                                                                    /\ calls = <<>>
                                                                                                                                                                                    /\ input = NoInput
                                                                                                                                                                                    /\ safetyPromptInput = Null
                                                                                                                                                                                    /\ responsePromptInput = Null
                                                                                                                                                                                    /\ result = Null

C14_Witness == pc = "failed" /\ thrown = "validation" /\ request.userMessage.type = "string" /\ request.wearablesData # Null /\ request.wearablesData[1].timestamp.type = "undefined" /\ calls = <<>>

\* ------------------------------------------------------------------------
\* Properties of the chat components
\* ------------------------------------------------------------------------

\* C15: in both chat components every processed send leaves exactly one AI
\* message after the user's message: the static apology (with the error
\* text shown and the loading state cleared) when processing failed, the
\* flow's response text when it succeeded; while a send is being processed
\* nothing but the user's message has been appended.
C15_ApologyOrResponse == /\ uiPc = "idle" => /\ ~isLoading
                                             /\ Len(conversationHistory) = 1 + 2 * sends
                                             /\ sends > 0 => LET last == conversationHistory[Len(conversationHistory)]
                                                                  prev == conversationHistory[Len(conversationHistory) - 1]
                                                              IN /\ prev.speaker = "user"
                                                                 /\ last.speaker = "ai"
                                                                 /\ IF fastOutcome[1].threw THEN last.text = "Sorry, I couldn't process your message right now. Please try again later." /\ last.analysis = Null /\ error = Some(last.text)
                                                                    ELSE last.text = fastOutcome[1].output[1].response /\ error = Null
                         /\ uiPc # "idle" => (isLoading /\ Len(conversationHistory) = 2 * sends /\ conversationHistory[Len(conversationHistory)].speaker = "user")
                         /\ basicPc = "idle" => /\ ~basicIsLoading
                                                /\ Len(basicHistory) = 1 + 2 * basicSends
                                                /\ basicSends > 0 => LET last == basicHistory[Len(basicHistory)]
                                                                          prev == basicHistory[Len(basicHistory) - 1]
                                                                      IN /\ prev.speaker = "user"
                                                                         /\ last.speaker = "ai"
                                                                         /\ IF basicOutcome[1].threw \/ basicOutcome[1].output = Null THEN last.text = "Sorry, I couldn't get a response right now. Please try again later." /\ basicError = Some(last.text)
                                                                            ELSE last.text = basicOutcome[1].output[1].response /\ basicError = Null
                         /\ basicPc # "idle" => (basicIsLoading /\ Len(basicHistory) = 2 * basicSends /\ basicHistory[Len(basicHistory)].speaker = "user")

C15_Witness == /\ uiPc = "idle" /\ sends = 2 /\ fastOutcome[1].threw /\ ~isLoading
               /\ conversationHistory[3].text = "Take it one step at a time."
               /\ conversationHistory[5].text = ErrorMessageText
               /\ basicPc = "idle" /\ basicSends = 1 /\ basicOutcome[1].threw /\ ~basicIsLoading
               /\ basicHistory[3].text = BasicErrorMessageText

\* ------------------------------------------------------------------------
\* Properties of the analysis cache
\* ------------------------------------------------------------------------

\* C16: neither store returns an entry once 24 hours have passed since it
\* was stored, with one expiry boundary for both stores: a read at time now
\* returns an entry stored at time t only if now - t is below 24 hours, in
\* getAnalysisResult as in getMessages.
C16_SameExpiryBoundary == (cacheReturn # Null /\ cacheReturn[1].status = "resolved") =>
                             /\ (cacheReturn[1].op = "getAnalysisResult" /\ cacheReturn[1].value # Null) => now - analysisStore[cacheReturn[1].value[1].key][1].timestamp < 24 * 60 * 60 * 1000
                             /\ cacheReturn[1].op = "getMessages" => \A i \in 1..Len(MessageIds) : (messageStore[i] # Null /\ now - messageStore[i][1].timestamp >= 24 * 60 * 60 * 1000) => ~\E j \in 1..Len(cacheReturn[1].value) : cacheReturn[1].value[j].text = MessageIds[i]

\* the stages of one request in the order of the flow body
StageOrder == <<"emotion", "health", "context", "safety", "response", "compile">>

\* C17: within one request the stages run in the order emotion analysis,
\* health summary, context management, safety assessment, response
\* generation, merge, each starting only after the one before it has ended;
\* the response generator never starts before the safety assessment has
\* produced its result, which it is handed.
C17_StagesInOrder == /\ Len(calls) <= Len(StageOrder)
                     /\ calls = SubSeq(StageOrder, 1, Len(calls))
                     /\ \A i \in 1..Len(StageOrder) : pc = StageOrder[i] => Len(calls) = i - 1
                     /\ pc = "response" => (safetyResult # Null /\ safetyPromptInput # Null)
                     /\ responsePromptInput # Null => (safetyResult # Null /\ responsePromptInput[1].safetyFactors = Json(safetyResult[1].output))
                     /\ pc = "returned" => calls = StageOrder

C17_Witness == pc = "returned" /\ calls = StageOrder /\ caught = {} /\ safetyResult[1].output # Null /\ responsePromptInput[1].safetyFactors = Json(safetyResult[1].output)

\* ------------------------------------------------------------------------
\* Properties of the knowledge matcher and of the context string
\* ------------------------------------------------------------------------

\* the entries, in table order, that satisfy a test
EntriesWhere(Test(_)) == SelectSeq([i \in 1..Len(therapeuticKnowledgeBase) |-> i], Test)

KeywordInMessage(ref, message) == \E k \in 1..Len(therapeuticKnowledgeBase[ref].keywords) : Includes(ToLowerCase(message), therapeuticKnowledgeBase[ref].keywords[k])

KeywordMapped(ref, label) == \E k \in 1..Len(therapeuticKnowledgeBase[ref].keywords), m \in 1..Len(emotionKeywords[label]) : therapeuticKnowledgeBase[ref].keywords[k] = emotionKeywords[label][m]

\* the list the matcher is to return for a message and an emotional context
ExpectedKnowledge(message, emotionalContext) == LET byMessage == EntriesWhere(LAMBDA r : KeywordInMessage(r, message))
                                                    label == emotionalContext[1].currentEmotion[1]
                                                    byEmotion == IF HasCurrentEmotion(emotionalContext) /\ label \in DOMAIN emotionKeywords THEN EntriesWhere(LAMBDA r : KeywordMapped(r, label)) ELSE <<>>
                                                IN SliceFirst(Unique(byMessage \o byEmotion), 5)

\* C18: findRelevantKnowledge returns, without an error, exactly the first
\* 5 elements of the de-duplicated list of the entries matched by the
\* message followed by the entries matched through the emotion mapping; a
\* label that is not in the mapping adds nothing and raises nothing.
C18_KnowledgeExactNoError == (ctxPc \notin {"idle", "intent", "knowledge"} /\ ctxThrown # "intent") => (ctxThrown # "knowledge" /\ relevantKnowledge = ExpectedKnowledge(ctxInput.currentMessage, ctxInput.emotionalContext))

\* positions of a turn's text in a context string
PositionsOf(text, token) == {p \in 1..Len(text) : text[p] = token}

\* C19: the context string sent to the intent classifier is built from the
\* last 5 turns of the history in their order: for n > 5 turns no text of
\* turns 1..(n-5) is in it, for n <= 5 every turn is in it, and the turns
\* in it follow one another as in the history.
C19_LastFiveTurns == intentPromptInput # Null => LET history == ctxInput.conversationHistory
                                                     n == Len(history)
                                                     first == IF n > 5 THEN n - 4 ELSE 1
                                                     text == intentPromptInput[1].conversationContext
                                                 IN /\ \A i \in 1..n : i < first => PositionsOf(text, history[i].message) = {}
                                                    /\ \A i \in 1..n : i >= first => Cardinality(PositionsOf(text, history[i].message)) = 1
                                                    /\ \A i, j \in first..n : i < j => \A p \in PositionsOf(text, history[i].message), q \in PositionsOf(text, history[j].message) : p < q
                                                    /\ Len(text) = IF n = 0 THEN 0 ELSE 4 * (n - first + 1) - 1

C19_Witness == /\ intentPromptInput # Null
               /\ Len(ctxInput.conversationHistory) = 7
               /\ PositionsOf(intentPromptInput[1].conversationContext, "turn 2") = {}
               /\ PositionsOf(intentPromptInput[1].conversationContext, "turn 3") # {}
               /\ PositionsOf(intentPromptInput[1].conversationContext, "turn 7") # {}

\* C20: a modality whose input is absent has its analyzer skipped entirely:
\* no call of its prompt is made, its field of the result stays unset (in
\* the object being filled and in the object returned), and the fusion call
\* receives no data for it.
C20_AbsentModalitySkipped == /\ emoInput.imageData = Null => /\ Count(emoCalls, "facial") = 0
                                                             /\ ~results.facialEmotions.set
                                                             /\ fusionPromptInput # Null => fusionPromptInput[1].facialData = Null
                                                             /\ emoOutput # Null => ~emoOutput[1].facialEmotions.set
                             /\ emoInput.audioFeatures = Null => /\ Count(emoCalls, "voice") = 0
                                                                 /\ ~results.voiceEmotions.set
                                                                 /\ fusionPromptInput # Null => fusionPromptInput[1].voiceData = Null
                                                                 /\ emoOutput # Null => ~emoOutput[1].voiceEmotions.set
                             /\ emoInput.textContent = Null => /\ Count(emoCalls, "text") = 0
                                                               /\ ~results.textEmotions.set
                                                               /\ fusionPromptInput # Null => fusionPromptInput[1].textData = Null
                                                               /\ emoOutput # Null => ~emoOutput[1].textEmotions.set

C20_Witness == /\ emoPc = "returned"
               /\ emoInput.imageData = Null /\ emoInput.audioFeatures = Null /\ emoInput.textContent # Null
               /\ emoCalls = <<"text", "fusion">>
               /\ fusionPromptInput[1].facialData = Null /\ fusionPromptInput[1].voiceData = Null /\ fusionPromptInput[1].textData # Null
               /\ ~emoOutput[1].facialEmotions.set /\ emoOutput[1].textEmotions.set

\* C21: an analyzer call that fails leaves its modality's field unset and
\* is not passed to the fusion call; it never fails the flow (only the
\* fusion call can): the analyzers after it still run, and the fusion call
\* is made with the data of exactly the modalities that produced an output.
C21_AnalyzerFailureIsolated == /\ "facial" \in emoCaught => (~results.facialEmotions.set /\ (fusionPromptInput # Null => fusionPromptInput[1].facialData = Null))
                               /\ "voice" \in emoCaught => (~results.voiceEmotions.set /\ (fusionPromptInput # Null => fusionPromptInput[1].voiceData = Null))
                               /\ "text" \in emoCaught => (~results.textEmotions.set /\ (fusionPromptInput # Null => fusionPromptInput[1].textData = Null))
                               /\ emoThrown \in {"", "fusion", "TypeError"}
                               /\ emoPc = "failed" => Count(emoCalls, "fusion") = 1
                               /\ emoPc \in {"fusion", "returned", "failed"} => /\ Count(emoCalls, "facial") = (IF TruthyStr(emoInput.imageData) THEN 1 ELSE 0)
                                                                                /\ Count(emoCalls, "voice") = (IF TruthyObj(emoInput.audioFeatures) THEN 1 ELSE 0)
                                                                                /\ Count(emoCalls, "text") = (IF TruthyStr(emoInput.textContent) THEN 1 ELSE 0)
                               /\ emoPc \in {"returned", "failed"} => /\ fusionPromptInput # Null
                                                                      /\ fusionPromptInput[1].facialData # Null <=> (results.facialEmotions.set /\ results.facialEmotions.value # Null)
                                                                      /\ fusionPromptInput[1].voiceData # Null <=> (results.voiceEmotions.set /\ results.voiceEmotions.value # Null)
                                                                      /\ fusionPromptInput[1].textData # Null <=> (results.textEmotions.set /\ results.textEmotions.value # Null)

C21_Witness == /\ emoPc = "returned"
               /\ emoCaught = {"facial"}
               /\ emoCalls = <<"facial", "voice", "text", "fusion">>
               /\ ~emoOutput[1].facialEmotions.set
               /\ fusionPromptInput[1].facialData = Null /\ fusionPromptInput[1].voiceData # Null /\ fusionPromptInput[1].textData # Null

\* the place of each prompt in the flow body
PromptRank == [facial |-> 1, voice |-> 2, text |-> 3, fusion |-> 4]

\* C22: the prompts are called one after another in the order facial,
\* voice, text, fusion, each at most once; the fusion call is the last
\* call, is made exactly once in a flow that has ended, and is made only
\* after every analyzer that was invoked has resolved or failed.
C22_AnalyzersInOrderFusionOnce == /\ \A i, j \in 1..Len(emoCalls) : i < j => PromptRank[emoCalls[i]] < PromptRank[emoCalls[j]]
                                  /\ Count(emoCalls, "fusion") <= 1
                                  /\ Count(emoCalls, "fusion") = 1 <=> emoPc \in {"returned", "failed"}
                                  /\ emoPc = "voice" => Count(emoCalls, "voice") + Count(emoCalls, "text") = 0
                                  /\ emoPc = "text" => Count(emoCalls, "text") = 0
                                  /\ Count(emoCalls, "fusion") = 1 => /\ emoCalls[Len(emoCalls)] = "fusion"
                                                                      /\ TruthyStr(emoInput.imageData) => ("facial" \in emoCaught \/ results.facialEmotions.set)
                                                                      /\ TruthyObj(emoInput.audioFeatures) => ("voice" \in emoCaught \/ results.voiceEmotions.set)
                                                                      /\ TruthyStr(emoInput.textContent) => ("text" \in emoCaught \/ results.textEmotions.set)

C22_Witness == emoPc = "returned" /\ emoCalls = <<"facial", "voice", "text", "fusion">> /\ emoCaught = {"voice"} /\ results.facialEmotions.set /\ results.textEmotions.set

\* the one wellness score every request would report
TheWellnessScore == CHOOSE c \in WellnessBase..(WellnessBase + RandomRange - 1) : TRUE

\* C23: the health stage makes no external call and yields the same values
\* for every request: the health summary handed to the context stage and
\* the healthAnalysis of the returned response (wellnessScore, stressLevel,
\* alerts, recommendations) are one fixed record.
C23_HealthSummaryStatic == /\ Count(calls, "wearables") = 0
                           /\ healthAnalysis # Null => healthAnalysis[1] = MinimalHealthAnalysis(TheWellnessScore - WellnessBase)
                           /\ pc = "returned" => result[1].healthAnalysis = Some([wellnessScore |-> TheWellnessScore, stressLevel |-> StaticStressLevel, alerts |-> <<>>, recommendations |-> <<"Take a deep breath", "Stay hydrated">>])

\* C24: every write to either persisted store (storeAnalysisResult and
\* storeMessage) starts a sweep of the entries older than 24 hours.
C24_EveryWriteStartsSweep == [][((storeAnalysisResult \/ storeMessage) /\ <<analysisStore, messageStore>>' # <<analysisStore, messageStore>>) => pendingCleanups' = pendingCleanups + 1]_vars

\* the stages of processComprehensiveMitrRequest
Stages == {"emotion", "health", "context", "safety", "response", "compile"}

\* C25: provided each model call eventually resolves or throws, every
\* request eventually returns a response or fails outright, and no stage is
\* run more than once: no retry, no loop.
C25_RequestTerminates == /\ <>(pc \in {"returned", "failed"})
                         /\ [](\A s \in Stages : Count(calls, s) <= 1)
                         /\ [][(pc \in {"returned", "failed"}) => (pc' = pc)]_vars

C25_Witness == pc = "returned" /\ calls = <<"emotion", "health", "context", "safety", "response", "compile">> /\ caught = {"emotion", "context"} /\ result # Null

\* C26: when the emotion and context stages succeeded, the merged response
\* reports their values unchanged, 0 and the empty string included:
\* emotionAnalysis.primary, confidence and distressLevel are the fused
\* record's, contextualInsights.therapeuticAlliance, urgencyLevel and
\* sessionPhase are the guidance's.
C26_StageValuesUnchanged == (pc = "returned" /\ emotionAnalysis # Null /\ contextualGuidance # Null) => LET fused == emotionAnalysis[1].fusedEmotions
                                                                                                       factors == contextualGuidance[1].contextualFactors
                                                                                                       merged == result[1]
                                                                                                   IN /\ merged.emotionAnalysis.primary = fused.primary
                                                                                                      /\ merged.emotionAnalysis.confidence = fused.confidence
                                                                                                      /\ merged.emotionAnalysis.distressLevel = fused.distressLevel
                                                                                                      /\ merged.contextualInsights.therapeuticAlliance = factors.therapeuticAlliance
                                                                                                      /\ merged.contextualInsights.urgencyLevel = factors.urgencyLevel
                                                                                                      /\ merged.contextualInsights.sessionPhase = factors.sessionPhase

\* the messages after the greeting
Sent == Tail(sendHistory)

\* C27: in the chat UI at most one request is in flight; a send attempt made
\* while one is processed changes nothing; each accepted send appends one
\* user message followed by one AI message, and isLoading is true exactly
\* while a send is in flight.
C27_OneRequestInFlight == /\ Cardinality(inFlight) <= 1
                          /\ sendIsLoading <=> inFlight # {}
                          /\ Len(Sent) = 2 * accepted - Cardinality(inFlight)
                          /\ \A k \in 1..Len(Sent) : Sent[k].send = (k + 1) \div 2 /\ Sent[k].speaker = (IF k % 2 = 1 THEN "user" ELSE "ai")

C27_Witness == accepted = 2 /\ ignored = 2 /\ inFlight = {} /\ ~sendIsLoading /\ Len(Sent) = 4 /\ Sent[4].text = <<"apology">>

\* C28: endTiming(id) completes exactly the metric created by the
\* startTiming call that returned id (end time, duration, success, cacheHit)
\* and returns its duration, whatever the operation name and however many
\* timings of the operation are unfinished.
C28_EndTimingCompletesItsMetric == perfReturn # Null => LET r == perfReturn[1]
                                                            m == metrics[MetricOf(r.id)]
                                                        IN /\ m.endTime = Some(r.at)
                                                           /\ m.duration = Some(r.at - m.startTime)
                                                           /\ m.success = r.success
                                                           /\ m.cacheHit = Some(r.cacheHit)
                                                           /\ r.value = r.at - m.startTime

\* C29: isSpeaking() is true exactly when an utterance started by speak is
\* still in progress, and a message id is recorded as spoken only after its
\* utterance has ended or failed.
C29_SpeakingIffUtteranceInProgress == /\ speaking <=> utterance # Null
                                      /\ spokenMessages \subseteq finishedIds

\* C30: no cache operation rejects: whatever the storage does,
\* getAnalysisResult, getMessages, storeAnalysisResult and storeMessage
\* settle by resolving.
C30_CacheNeverRejects == cacheReturn # Null => cacheReturn[1].status = "resolved"

====
